---- MODULE Spec2Model ----
(***************************************************************************)
(* A model of mmodel: ModelGraph (graph.py), the signature and counter     *)
(* helpers (utility.py), the signature modifier (modifier.py) and the      *)
(* topological handlers with their data stores (handler.py).               *)
(*                                                                         *)
(* Parameter and return names are the integers 1, 2, 3, ... standing for   *)
(* "a", "b", "c", ... so that Python's sorted() on names is numeric order. *)
(* A Python value that may be missing (a dict key that is not set) is an   *)
(* option: <<>> when missing, <<v>> when set to v.                         *)
(***************************************************************************)
EXTENDS Integers, Sequences, FiniteSets, TLC

VARIABLES
    graph,      \* the ModelGraph the caller holds
    raised,     \* the exception the last graph operation raised ("" if none)
    handler,    \* the constructed handlers (BasicHandler and MemHandler)
    counters,   \* the counter dictionaries: 0 is the handler's, i is invocation i's
    call_kwargs, \* the keyword arguments invocation i is called with
    inv         \* the invocations of the handlers, one per slot

vars == <<graph, raised, handler, counters, call_kwargs, inv>>

-----------------------------------------------------------------------------
(* Bounds of the model. *)

\* the most edges a graph is grown to by the graph operations
MaxEdges == 2
\* the longest requested-returns list a handler is constructed with
MaxReturns == 2

Names == {1, 2, 3, 4, 5}
NodeIds == {1, 2, 3}

-----------------------------------------------------------------------------
(* Helpers for Python lists, sets and dicts. *)

Range(s) == {s[i] : i \in DOMAIN s}

HasDuplicates(s) == \E i, j \in DOMAIN s : i # j /\ s[i] = s[j]

Min(S) == CHOOSE x \in S : \A y \in S : x <= y

RECURSIVE SetToSortedSeq(_)
SetToSortedSeq(S) ==
    IF S = {} THEN <<>> ELSE <<Min(S)>> \o SetToSortedSeq(S \ {Min(S)})

\* the sequences over S of length lo..hi
SeqsOf(S, lo, hi) == UNION {[1..n -> S] : n \in lo..hi}

\* the sequences over S of length lo..hi without a repeated element
DistinctSeqsOf(S, lo, hi) == {s \in SeqsOf(S, lo, hi) : ~HasDuplicates(s)}

\* list.index-free membership of a value in a list
InSeq(x, s) == \E i \in DOMAIN s : s[i] = x

\* dict restricted to the keys in K
Restrict(f, K) == [x \in K |-> f[x]]

-----------------------------------------------------------------------------
(* inspect.Parameter and inspect.Signature.                                *)
(* kind is inspect's integer: 1 POSITIONAL_OR_KEYWORD, 3 KEYWORD_ONLY.     *)
(* dflt is 0 for Parameter.empty, otherwise the default value.             *)

Parameter(name, kind, dflt) == [name |-> name, kind |-> kind, dflt |-> dflt]

\* sig.parameters.keys(), as a list and as a set
ParamList(sig) == [i \in DOMAIN sig |-> sig[i].name]
ParamNames(sig) == {sig[i].name : i \in DOMAIN sig}

-----------------------------------------------------------------------------
(* Callables. A callable is what inspect.signature and a call see of it:   *)
(* the base function, the signature it shows, and for a callable wrapped   *)
(* by signature_modifier the (old, new) parameter pairs.                   *)

Callable(name, sig) ==
    [name |-> name, sig |-> sig,
     pairs |-> [i \in DOMAIN sig |-> <<sig[i].name, sig[i].name>>]]

addition == Callable("addition", <<Parameter(1, 1, 0), Parameter(2, 1, 2)>>)
logarithm == Callable("logarithm", <<Parameter(3, 1, 0), Parameter(2, 1, 0)>>)

\* modifier.py signature_modifier: whether the call raises
signature_modifier_raises(func, parameters) ==
    \/ HasDuplicates(parameters)              \* inspect.Signature rejects them
    \/ Len(parameters) > Len(func.sig)

\* modifier.py signature_modifier: the wrapped callable
signature_modifier(func, parameters) ==
    [name  |-> func.name,
     sig   |-> [i \in DOMAIN parameters |-> Parameter(parameters[i], 1, 0)],
     pairs |-> [i \in DOMAIN parameters |-> <<func.sig[i].name, parameters[i]>>]]

-----------------------------------------------------------------------------
(* ModelGraph (networkx.DiGraph): nodes in insertion order, one attribute  *)
(* dict per node, one attribute dict (only "val") per edge.                *)

NoAttr ==
    [base_obj |-> <<>>, func |-> <<>>, sig |-> <<>>, returns |-> <<>>,
     modifiers |-> <<>>]

EmptyGraph == [nodes |-> <<>>, attr |-> <<>>, edges |-> <<>>]

NodeSet(G) == Range(G.nodes)
EdgeSet(G) == DOMAIN G.edges

\* networkx add_node as add_edge uses it: a new node gets an empty dict
add_node(G, n) ==
    IF n \in NodeSet(G) THEN G
    ELSE [G EXCEPT !.nodes = Append(@, n), !.attr = (n :> NoAttr) @@ @]

\* networkx DiGraph.add_edge without attributes: an existing edge keeps its dict
nx_add_edge(G, u, v) ==
    LET G2 == add_node(add_node(G, u), v)
        old == IF <<u, v>> \in DOMAIN G2.edges THEN G2.edges[<<u, v>>] ELSE <<>>
    IN [G2 EXCEPT !.edges = (<<u, v>> :> old) @@ @]

RECURSIVE nx_add_edges_from(_, _)
nx_add_edges_from(G, ebunch) ==
    IF ebunch = <<>> THEN G
    ELSE nx_add_edges_from(nx_add_edge(G, ebunch[1][1], ebunch[1][2]),
                           Tail(ebunch))

\* graph.py update_graph, one edge: an edge whose consumer has no "sig" is skipped
edge_val(G, u, v) ==
    LET u_rts == IF G.attr[u].returns = <<>> THEN {}
                 ELSE Range(G.attr[u].returns[1])
        v_sig == G.attr[v].sig
    IN IF v_sig # <<>>
       THEN <<SetToSortedSeq(u_rts \cap ParamNames(v_sig[1]))>>
       ELSE G.edges[<<u, v>>]

\* graph.py update_graph
update_graph(G) ==
    [G EXCEPT !.edges = [e \in DOMAIN G.edges |-> edge_val(G, e[1], e[2])]]

\* graph.py set_node_object: the modifiers list after "if inputs:"
node_modifiers(inputs, modifiers) ==
    IF inputs # <<>> THEN <<[mdf |-> "signature_modifier", parameters |-> inputs]>>
                          \o modifiers
    ELSE modifiers

\* graph.py set_node_object: the exception the call raises ("" if none)
set_node_object_raises(G, node, func, inputs) ==
    IF node \notin NodeSet(G) THEN "KeyError"
    ELSE IF inputs # <<>> /\ signature_modifier_raises(func, inputs)
         THEN "SignatureModifierError"
    ELSE ""

\* set_node_object on nodes that share one attribute dict: the call also
\* writes the object to every node that has none yet
set_node_object_shared_dict(G, node, func, returns, inputs) ==
    IF node \notin NodeSet(G) THEN G
    ELSE LET wrapped == IF inputs # <<>> THEN signature_modifier(func, inputs)
                        ELSE func
             written == [base_obj  |-> <<func>>,
                         func      |-> <<wrapped>>,
                         sig       |-> <<wrapped.sig>>,
                         returns   |-> <<returns>>,
                         modifiers |-> <<node_modifiers(inputs, <<>>)>>]
         IN IF set_node_object_raises(G, node, func, inputs) # ""
            THEN [G EXCEPT !.attr[node].base_obj = <<func>>]
            ELSE update_graph(
                   [G EXCEPT !.attr = [m \in DOMAIN G.attr |->
                       IF m = node \/ G.attr[m] = NoAttr THEN written
                       ELSE G.attr[m]]])

\* graph.py set_node_object: the graph after the call, also when it raises
set_node_object(G, node, func, returns, inputs) ==
    IF node \notin NodeSet(G) THEN G
    ELSE LET G1 == [G EXCEPT !.attr[node].base_obj = <<func>>]
             wrapped == IF inputs # <<>> THEN signature_modifier(func, inputs)
                        ELSE func
         IN IF set_node_object_raises(G, node, func, inputs) # "" THEN G1
            ELSE update_graph(
                   [G1 EXCEPT !.attr[node] =
                       [base_obj  |-> <<func>>,
                        func      |-> <<wrapped>>,
                        sig       |-> <<wrapped.sig>>,
                        returns   |-> <<returns>>,
                        modifiers |-> <<node_modifiers(inputs, <<>>)>>]])

\* add_edge without the trailing update_graph
add_edge_no_update(G, u, v) == nx_add_edge(G, u, v)

\* graph.py add_edge
add_edge(G, u, v) == update_graph(nx_add_edge(G, u, v))

\* graph.py add_edges_from
add_edges_from(G, ebunch) == update_graph(nx_add_edges_from(G, ebunch))

\* add_grouped_edge that takes two lists as a list and its first node
add_grouped_edge_cross(G, u, v) ==
    IF u.list
    THEN add_edges_from(G, [i \in DOMAIN u.of |-> <<u.of[i], v.of[1]>>])
    ELSE IF v.list
         THEN add_edges_from(G, [i \in DOMAIN v.of |-> <<u.of[1], v.of[i]>>])
    ELSE add_edge(G, u.of[1], v.of[1])

\* graph.py add_grouped_edge: an endpoint is [list |-> BOOLEAN, of |-> nodes]
add_grouped_edge_raises(u, v) ==
    IF u.list /\ v.list THEN "Exception" ELSE ""

add_grouped_edge(G, u, v) ==
    IF u.list /\ v.list THEN G
    ELSE IF u.list
         THEN add_edges_from(G, [i \in DOMAIN u.of |-> <<u.of[i], v.of[1]>>])
    ELSE IF v.list
         THEN add_edges_from(G, [i \in DOMAIN v.of |-> <<u.of[1], v.of[i]>>])
    ELSE add_edge(G, u.of[1], v.of[1])

-----------------------------------------------------------------------------
(* utility.py: the signature, the default returns, the order, the counter. *)

\* Python's tuple comparison a >= b
TupleGE(a, b) ==
    \/ a = b
    \/ \E i \in DOMAIN a :
          /\ i \in DOMAIN b
          /\ \A j \in 1..(i - 1) : a[j] = b[j]
          /\ a[i] > b[i]

\* param_sorter with the default test inverted
param_sorter_inverted(parameter) ==
    IF parameter.dflt # 0 THEN <<parameter.kind, 0, parameter.name>>
    ELSE <<parameter.kind, 1, parameter.name>>

\* utility.py param_sorter: (kind, has default, name)
param_sorter(parameter) ==
    IF parameter.dflt # 0 THEN <<parameter.kind, 1, parameter.name>>
    ELSE <<parameter.kind, 0, parameter.name>>

\* nx.get_node_attributes(graph, attr): the nodes that have it, in node order
NodesWith(G, attr) ==
    SelectSeq(G.nodes, LAMBDA n :
        CASE attr = "sig" -> G.attr[n].sig # <<>>
          [] attr = "returns" -> G.attr[n].returns # <<>>
          [] attr = "func" -> G.attr[n].func # <<>>)

RECURSIVE Flatten(_)
Flatten(ss) == IF ss = <<>> THEN <<>> ELSE Head(ss) \o Flatten(Tail(ss))

\* every parameter of every node signature, in the order the loops visit them
AllParameters(G) ==
    LET ns == NodesWith(G, "sig")
    IN Flatten([i \in DOMAIN ns |-> G.attr[ns[i]].sig[1]])

\* every declared return of every node, in the order the loops visit them
AllReturns(G) ==
    LET ns == NodesWith(G, "returns")
    IN Flatten([i \in DOMAIN ns |-> G.attr[ns[i]].returns[1]])

\* utility.py model_signature, the merge loop: parameters is a dict name -> Parameter
RECURSIVE merge_parameters(_, _)
merge_parameters(parameters, todo) ==
    IF todo = <<>> THEN parameters
    ELSE LET param == Head(todo)
             pname == param.name
         IN IF /\ pname \in DOMAIN parameters
               /\ TupleGE(param_sorter(parameters[pname]), param_sorter(param))
            THEN merge_parameters(parameters, Tail(todo))
            ELSE merge_parameters((pname :> param) @@ parameters, Tail(todo))

\* sorted(values, key=param_sorter): the keys are distinct, names being dict keys
RECURSIVE sorted_parameters(_)
sorted_parameters(ps) ==
    IF ps = {} THEN <<>>
    ELSE LET m == CHOOSE p \in ps :
                    \A q \in ps : TupleGE(param_sorter(q), param_sorter(p))
         IN <<m>> \o sorted_parameters(ps \ {m})

\* model_signature without the loop that pops the returns
model_signature_keep_returns(G) ==
    LET merged == merge_parameters(<<>>, AllParameters(G))
    IN sorted_parameters({merged[x] : x \in DOMAIN merged})

\* utility.py model_signature
model_signature(G) ==
    LET merged == merge_parameters(<<>>, AllParameters(G))
        kept == DOMAIN merged \ Range(AllReturns(G))
    IN sorted_parameters({merged[x] : x \in kept})

\* inspect.Signature(parameters) as model_signature calls it: the exception
\* its validation raises ("" if none). Kinds must not decrease, and among
\* the positional kinds (0 POSITIONAL_ONLY, 1 POSITIONAL_OR_KEYWORD) no
\* parameter without a default may follow one with a default.
Signature_raises(parameters) ==
    IF \/ \E k, m \in DOMAIN parameters :
             k < m /\ parameters[k].kind > parameters[m].kind
       \/ \E k, m \in DOMAIN parameters :
             /\ k < m
             /\ parameters[k].kind \in {0, 1} /\ parameters[m].kind \in {0, 1}
             /\ parameters[k].dflt # 0 /\ parameters[m].dflt = 0
       \/ HasDuplicates(ParamList(parameters))
    THEN "ValueError" ELSE ""

\* utility.py model_signature: the exception the call raises ("" if none)
model_signature_raises(G) == Signature_raises(model_signature(G))

\* utility.py model_returns: graph.nodes[node]["returns"] and
\* graph.edges[edge]["val"] raise KeyError when the key is not set
model_returns_raises(G) ==
    \/ \E n \in NodeSet(G) : G.attr[n].returns = <<>>
    \/ \E e \in EdgeSet(G) : G.edges[e] = <<>>

\* model_returns that does not take the intermediate names away
model_returns_keep_intermediate(G) ==
    SetToSortedSeq(UNION {Range(G.attr[n].returns[1]) : n \in NodeSet(G)})

\* utility.py model_returns, when it does not raise
model_returns(G) ==
    LET returns == UNION {Range(G.attr[n].returns[1]) : n \in NodeSet(G)}
        intermediate == UNION {Range(G.edges[e][1]) : e \in EdgeSet(G)}
    IN SetToSortedSeq(returns \ intermediate)

Predecessors(G, n) == {e[1] : e \in {f \in EdgeSet(G) : f[2] = n}}

\* the nodes of S in the order the graph lists them
InNodeOrder(G, S) == SelectSeq(G.nodes, LAMBDA n : n \in S)

\* nx.topological_sort: generation by generation, a generation being the
\* nodes whose predecessors are all sorted already. networkx lists a
\* generation in the order its nodes lose their last unsorted predecessor;
\* on graphs of up to three nodes that is the order the graph lists them in
RECURSIVE topological_sort(_, _)
topological_sort(G, sorted) ==
    LET left == NodeSet(G) \ Range(sorted)
        ready == {n \in left : Predecessors(G, n) \subseteq Range(sorted)}
    IN IF ready = {} THEN sorted
       ELSE topological_sort(G, sorted \o InNodeOrder(G, ready))

\* the nodes in the order the graph lists them, whatever the edges
node_order_unsorted(G) == G.nodes

\* utility.py graph_topological_sort: the node part of the (node, attr) pairs;
\* the attr part is the graph's own dict, read through the graph
graph_topological_sort(G) == topological_sort(G, <<>>)

\* nx.topological_sort raises NetworkXUnfeasible on a cycle
HasCycle(G) == Len(topological_sort(G, <<>>)) < Len(G.nodes)

RECURSIVE count_values(_, _)
count_values(count, value_list) ==
    IF value_list = <<>> THEN count
    ELSE LET value == Head(value_list)
             old == IF value \in DOMAIN count THEN count[value] ELSE 0
         IN count_values((value :> (old + 1)) @@ count, Tail(value_list))

\* param_counter without the requested returns
param_counter_no_returns(G, returns) ==
    count_values(<<>>, ParamList(AllParameters(G)))

\* utility.py param_counter
param_counter(G, returns) ==
    count_values(<<>>, ParamList(AllParameters(G)) \o returns)

-----------------------------------------------------------------------------
(* Values. Callables are opaque: the value a callable returns is the term  *)
(* made of the function's name, the position in the returned sequence (0   *)
(* when the whole return is stored) and the arguments it was called with.  *)

Value(kind, f, out, args) == [kind |-> kind, f |-> f, out |-> out, args |-> args]

\* the value the caller passes for parameter x
ArgValue(x) == Value("arg", "", x, <<>>)

\* func(**kwargs) for a callable wrapped by signature_modifier or not wrapped:
\* the base function receives {old: kwargs[new]}
CallArgs(func, kwargs) ==
    LET olds == {func.pairs[i][1] : i \in DOMAIN func.pairs}
        new(old) == (CHOOSE i \in DOMAIN func.pairs : func.pairs[i][1] = old)
    IN [old \in olds |-> kwargs[func.pairs[new(old)][2]]]

\* the i-th element of func(**kwargs), or with i = 0 all of it
Output(func, kwargs, i) == Value("out", func.name, i, CallArgs(func, kwargs))

-----------------------------------------------------------------------------
(* handler.py: the data stores. A store is [cls, data, counter]: the class *)
(* (dict for BasicHandler, MemData for MemHandler), the key -> value dict, *)
(* and for MemData the id of its counter dict in the variable counters.    *)

\* MemData.__init__ that keeps the handler's counter dict instead of a copy
MemData_init_shared(ctrs, i) == [ctrs |-> ctrs, ref |-> 0]

\* handler.py MemData.__init__: self.counter = counter.copy()
MemData_init(ctrs, i) == [ctrs |-> [ctrs EXCEPT ![i] = ctrs[0]], ref |-> i]

\* MemData.__getitem__ that pops the value as soon as one read is left
MemData_getitem_early(data, counter, key) ==
    IF key \notin DOMAIN counter
    THEN [ok |-> FALSE, data |-> data, counter |-> counter]
    ELSE LET c == [counter EXCEPT ![key] = @ - 1]
         IN IF key \notin DOMAIN data
            THEN [ok |-> FALSE, data |-> data, counter |-> c]
            ELSE IF c[key] <= 1
                 THEN [ok |-> TRUE, counter |-> c,
                       data |-> Restrict(data, DOMAIN data \ {key})]
                 ELSE [ok |-> TRUE, data |-> data, counter |-> c]

\* handler.py MemData.__getitem__: ok is FALSE when the read raises KeyError
MemData_getitem(data, counter, key) ==
    IF key \notin DOMAIN counter
    THEN [ok |-> FALSE, data |-> data, counter |-> counter]
    ELSE LET c == [counter EXCEPT ![key] = @ - 1]
         IN IF key \notin DOMAIN data
            THEN [ok |-> FALSE, data |-> data, counter |-> c]
            ELSE IF c[key] = 0
                 THEN [ok |-> TRUE, counter |-> c,
                       data |-> Restrict(data, DOMAIN data \ {key})]
                 ELSE [ok |-> TRUE, data |-> data, counter |-> c]

\* data[key] of either store
getitem(cls, data, counter, key) ==
    IF cls = "MemData" THEN MemData_getitem(data, counter, key)
    ELSE [ok |-> key \in DOMAIN data, data |-> data, counter |-> counter]

\* {key: data[key] for key in keys}: the reads happen in order and stop at
\* the first KeyError; got is the dict built so far
RECURSIVE read_all(_, _, _, _, _)
read_all(cls, data, counter, keys, got) ==
    IF keys = <<>> THEN [ok |-> TRUE, data |-> data, counter |-> counter, got |-> got]
    ELSE LET r == getitem(cls, data, counter, Head(keys))
         IN IF ~r.ok
            THEN [ok |-> FALSE, data |-> r.data, counter |-> r.counter, got |-> got]
            ELSE read_all(cls, r.data, r.counter, Tail(keys),
                          (Head(keys) :> data[Head(keys)]) @@ got)

\* the extraction with the tuple built back to front
RECURSIVE read_each_reversed(_, _, _, _, _)
read_each_reversed(cls, data, counter, keys, got) ==
    IF keys = <<>> THEN [ok |-> TRUE, data |-> data, counter |-> counter, got |-> got]
    ELSE LET r == getitem(cls, data, counter, Head(keys))
         IN IF ~r.ok
            THEN [ok |-> FALSE, data |-> r.data, counter |-> r.counter, got |-> got]
            ELSE read_each_reversed(cls, r.data, r.counter, Tail(keys),
                                    <<data[Head(keys)]>> \o got)

\* tuple(data[rt] for rt in returns): as read_all, got being the tuple so far
RECURSIVE read_each(_, _, _, _, _)
read_each(cls, data, counter, keys, got) ==
    IF keys = <<>> THEN [ok |-> TRUE, data |-> data, counter |-> counter, got |-> got]
    ELSE LET r == getitem(cls, data, counter, Head(keys))
         IN IF ~r.ok
            THEN [ok |-> FALSE, data |-> r.data, counter |-> r.counter, got |-> got]
            ELSE read_each(cls, r.data, r.counter, Tail(keys),
                           Append(got, data[Head(keys)]))

\* dict, UserDict and MemData define no close(): data.close() raises AttributeError
close_raises(cls) == cls \in {"dict", "MemData"}

-----------------------------------------------------------------------------
(* handler.py: TopologicalHandler, BasicHandler, MemHandler.               *)

Slots == {1, 2}

\* handler.py TopologicalHandler.__init__; self.graph is the caller's graph
\* object and the attr dicts of self.order are that graph's own dicts, so both
\* are read through the variable graph
TopologicalHandler_init(G, returns) ==
    [signature |-> model_signature(G),
     returns   |-> returns,
     order     |-> graph_topological_sort(G)]

\* graph.py view_node: the rendering of a node
view_node(G, node) ==
    [node      |-> node,
     callable  |-> G.attr[node].base_obj[1].name,
     sig       |-> G.attr[node].sig[1],
     returns   |-> G.attr[node].returns[1],
     modifiers |-> G.attr[node].modifiers[1]]

NoError == [type |-> "", node |-> 0, node_str |-> <<>>, kwargs |-> <<>>]

\* the exception TopologicalHandler.run_node raises after its bare except
NodeError(G, node, kwargs) ==
    [type |-> "NodeError", node |-> node, node_str |-> <<view_node(G, node)>>,
     kwargs |-> kwargs]

KeyError == [type |-> "KeyError", node |-> 0, node_str |-> <<>>, kwargs |-> <<>>]

\* an invocation that has not been made: cls is the handler's DataClass; calls
\* lists the node callables invoked so far, each with "returned" or "raised"
Idle(cls) ==
    [pc |-> "idle", cls |-> cls, data |-> <<>>, ref |-> 0, idx |-> 1,
     calls |-> <<>>, closes |-> 0, result |-> <<>>, error |-> NoError]

\* the counter dict of invocation i's store
CounterOf(i) == counters[inv[i].ref]

\* handler.py TopologicalHandler.__call__, its first statement:
\* data = self.DataClass(kwargs, **self.datacls_kwargs)
Call(i) ==
    /\ handler # <<>>
    /\ inv[i].pc = "idle"
    /\ LET made == IF inv[i].cls = "MemData" THEN MemData_init(counters, i)
                   ELSE [ctrs |-> counters, ref |-> 0]
       IN /\ counters' = made.ctrs
          /\ inv' = [inv EXCEPT ![i].pc = "run", ![i].data = call_kwargs[i],
                                ![i].ref = made.ref]
    /\ UNCHANGED <<graph, raised, handler, call_kwargs>>

\* run_node's writes: data[returns[0]] = func_output, or
\* data.update(dict(zip(returns, func_output)))
store_output(data, func, kwargs, returns) ==
    IF Len(returns) = 1 THEN (returns[1] :> Output(func, kwargs, 0)) @@ data
    ELSE LET last(x) == CHOOSE k \in DOMAIN returns :
                          /\ returns[k] = x
                          /\ \A m \in DOMAIN returns : returns[m] = x => m <= k
         IN [x \in Range(returns) |-> Output(func, kwargs, last(x))] @@ data

\* run_node when the callable raises: the invocation ends without close()
run_node_raise_no_close(i, node, r) ==
    [inv[i] EXCEPT !.pc = "failed", !.data = r.data,
                   !.calls = Append(@, <<node, "raised">>),
                   !.error = NodeError(graph, node, r.got)]

\* run_node that catches the callable's exception and goes on to the next node
run_node_swallow(i, node, r) ==
    [inv[i] EXCEPT !.data = r.data, !.calls = Append(@, <<node, "raised">>),
                   !.idx = @ + 1]

\* handler.py run_node, the except branch: close() is tried, its failure
\* passed over, and the node exception raised
run_node_raise(i, node, r) ==
    [inv[i] EXCEPT !.pc = "failed", !.data = r.data,
                   !.calls = Append(@, <<node, "raised">>),
                   !.closes = @ + 1,
                   !.error = NodeError(graph, node, r.got)]

\* handler.py run_node for the node at inv[i].idx; raises says whether the
\* callable raises
run_node(i, raises) ==
    LET node == handler[1].order[inv[i].idx]
        node_attr == graph.attr[node]
        parameters == ParamList(node_attr.sig[1])
        r == read_all(inv[i].cls, inv[i].data, CounterOf(i), parameters, <<>>)
    IN IF ~r.ok
       THEN [inv[i] EXCEPT !.pc = "failed", !.data = r.data, !.error = KeyError]
       ELSE IF raises THEN run_node_raise(i, node, r)
       ELSE [inv[i] EXCEPT
               !.data = store_output(r.data, node_attr.func[1], r.got,
                                     node_attr.returns[1]),
               !.calls = Append(@, <<node, "returned">>),
               !.idx = @ + 1]

\* the counter dict after run_node's reads
run_node_counter(i) ==
    LET node == handler[1].order[inv[i].idx]
        parameters == ParamList(graph.attr[node].sig[1])
    IN read_all(inv[i].cls, inv[i].data, CounterOf(i), parameters, <<>>).counter

\* one turn of the loop of TopologicalHandler.__call__
RunNode(i) ==
    /\ inv[i].pc = "run"
    /\ inv[i].idx <= Len(handler[1].order)
    /\ \E raises \in BOOLEAN :
          inv' = [inv EXCEPT ![i] = run_node(i, raises)]
    /\ counters' = [counters EXCEPT ![inv[i].ref] = run_node_counter(i)]
    /\ UNCHANGED <<graph, raised, handler, call_kwargs>>

\* finish that lets a failure of close() reach the caller
finish_close_propagates(i, r, result) ==
    IF close_raises(inv[i].cls)
    THEN [inv[i] EXCEPT !.pc = "failed", !.data = r.data, !.closes = @ + 1,
                        !.error = [NoError EXCEPT !.type = "AttributeError"]]
    ELSE [inv[i] EXCEPT !.pc = "done", !.data = r.data, !.closes = @ + 1,
                        !.result = <<result>>]

\* handler.py finish after the reads: close() is tried, its failure passed
\* over, and the result returned
finish_close(i, r, result) ==
    [inv[i] EXCEPT !.pc = "done", !.data = r.data, !.closes = @ + 1,
                   !.result = <<result>>]

\* handler.py TopologicalHandler.finish
finish(i) ==
    LET returns == handler[1].returns
        \* data[rt] for rt in returns, one read per list position
        r == read_each(inv[i].cls, inv[i].data, CounterOf(i), returns, <<>>)
        result == IF Len(returns) = 1 THEN r.got[1] ELSE r.got
    IN IF ~r.ok
       THEN [inv[i] EXCEPT !.pc = "failed", !.data = r.data, !.error = KeyError]
       ELSE finish_close(i, r, result)

\* result = self.finish(data, self.returns); return result
Finish(i) ==
    /\ inv[i].pc = "run"
    /\ inv[i].idx = Len(handler[1].order) + 1
    /\ inv' = [inv EXCEPT ![i] = finish(i)]
    /\ counters' = [counters EXCEPT ![inv[i].ref] =
                       read_each(inv[i].cls, inv[i].data, CounterOf(i),
                                 handler[1].returns, <<>>).counter]
    /\ UNCHANGED <<graph, raised, handler, call_kwargs>>

-----------------------------------------------------------------------------
(* The inputs the graph operations are called with. *)

\* set_node_object's (func, returns, inputs): plain, renamed, and renamed
\* with more names than the callable has parameters
NodeObjects ==
    {<<addition, <<3>>, <<>>>>,
     <<logarithm, <<4, 3>>, <<3, 4>>>>,
     <<logarithm, <<3>>, <<1, 2, 3>>>>}
Single(n) == [list |-> FALSE, of |-> <<n>>]
Group(ns) == [list |-> TRUE, of |-> ns]
Endpoints == {Single(n) : n \in NodeIds} \cup
             {Group(ns) : ns \in {s \in DistinctSeqsOf(NodeIds, 2, 2) : s[1] < s[2]}}
EdgePairs == {e \in NodeIds \X NodeIds : e[1] # e[2]}
\* add_edges_from's ebunch: no edge, or two edges that form a path
Bunches == {<<>>} \cup
           {b \in [1..2 -> EdgePairs] : b[2][1] = b[1][2] /\ b[2][2] # b[1][1]}

\* the edges a call would leave the graph with stay within the bound
WithinBound(G) == Cardinality(EdgeSet(G)) <= MaxEdges

InitGraph ==
    /\ graph = EmptyGraph
    /\ raised = ""
    /\ handler = <<>>
    /\ counters = <<>>
    /\ call_kwargs = <<>>
    /\ inv = <<>>

SetNodeObject ==
    \E node \in NodeIds, obj \in NodeObjects :
        /\ graph' = set_node_object(graph, node, obj[1], obj[2], obj[3])
        /\ raised' = set_node_object_raises(graph, node, obj[1], obj[3])
        /\ UNCHANGED <<handler, counters, call_kwargs, inv>>

AddEdge ==
    \E e \in EdgePairs :
        /\ WithinBound(add_edge(graph, e[1], e[2]))
        /\ graph' = add_edge(graph, e[1], e[2])
        /\ raised' = ""
        /\ UNCHANGED <<handler, counters, call_kwargs, inv>>

AddEdgesFrom ==
    \E ebunch \in Bunches :
        /\ WithinBound(add_edges_from(graph, ebunch))
        /\ graph' = add_edges_from(graph, ebunch)
        /\ raised' = ""
        /\ UNCHANGED <<handler, counters, call_kwargs, inv>>

AddGroupedEdge ==
    \E u \in Endpoints, v \in Endpoints :
        /\ WithinBound(add_grouped_edge(graph, u, v))
        /\ graph' = add_grouped_edge(graph, u, v)
        /\ raised' = add_grouped_edge_raises(u, v)
        /\ UNCHANGED <<handler, counters, call_kwargs, inv>>

NextGraph == SetNodeObject \/ AddEdge \/ AddEdgesFrom \/ AddGroupedEdge

SpecGraph == InitGraph /\ [][NextGraph]_vars

-----------------------------------------------------------------------------
(* Invocations of a BasicHandler (slot 1) and a MemHandler (slot 2) made   *)
(* from one graph with one returns list and called with the same keyword   *)
(* arguments. The graph is built with the graph operations: the edges of a *)
(* shape, then one set_node_object per node.                               *)

f1 == Callable("f1", <<Parameter(1, 1, 0)>>)
f2 == Callable("f2", <<Parameter(3, 1, 0), Parameter(1, 1, 0)>>)
f3 == Callable("f3", <<Parameter(3, 1, 0)>>)

\* (func, returns) of a node: a -> c; c, a -> d; c -> e, b
ExecObjects == {<<f1, <<3>>>>, <<f2, <<4>>>>, <<f3, <<5, 2>>>>}

\* chain, fork, join, and a chain whose second edge is listed first
ExecShapes ==
    {<<<<1, 2>>, <<2, 3>>>>, <<<<1, 2>>, <<1, 3>>>>, <<<<1, 3>>, <<2, 3>>>>,
     <<<<2, 3>>, <<1, 2>>>>}

RECURSIVE set_node_objects_from(_, _)
set_node_objects_from(G, node_objects) ==
    IF node_objects = <<>> THEN G
    ELSE LET o == Head(node_objects)
         IN set_node_objects_from(set_node_object(G, o[1], o[2], o[3], <<>>),
                                  Tail(node_objects))

ExecGraphs ==
    {set_node_objects_from(add_edges_from(EmptyGraph, shape),
                           <<<<1, o1[1], o1[2]>>, <<2, o2[1], o2[2]>>,
                             <<3, o3[1], o3[2]>>>>) :
       shape \in ExecShapes, o1 \in ExecObjects, o2 \in ExecObjects,
       o3 \in ExecObjects}

\* the returns lists a handler is made with: the default and custom lists
ReturnsLists(G) == {model_returns(G)} \cup DistinctSeqsOf(Names, 1, MaxReturns)

\* the keyword arguments of a call: the parameters of the signature, those
\* but the first, or every name
KwargsOf(names) == [x \in names |-> ArgValue(x)]
CallKwargs(G) ==
    LET sig == ParamNames(model_signature(G))
    IN {KwargsOf(sig), KwargsOf(sig \ {Min(sig \cup {5})}), KwargsOf(Names)}

InitExec ==
    \E G \in ExecGraphs :
      \E returns \in ReturnsLists(G), kw \in CallKwargs(G) :
        /\ graph = G
        /\ raised = ""
        /\ handler = <<TopologicalHandler_init(G, returns)>>
        /\ counters = [i \in {0} \cup Slots |->
                         IF i = 0 THEN param_counter(G, returns) ELSE <<>>]
        /\ call_kwargs = [i \in Slots |-> kw]
        /\ inv = [i \in Slots |-> Idle(IF i = 1 THEN "dict" ELSE "MemData")]

NextExec == \E i \in Slots : Call(i) \/ RunNode(i) \/ Finish(i)

SpecExec == InitExec /\ [][NextExec]_vars

-----------------------------------------------------------------------------
(* Claims about an invocation, checked under SpecExec. *)

Order == handler[1].order
Requested == handler[1].returns
NodeParams(n) == ParamNames(graph.attr[n].sig[1])
NodeReturns(n) == Range(graph.attr[n].returns[1])
Max(S) == CHOOSE x \in S : \A y \in S : y <= x

\* the names read at position k: a node's parameters, or after the last
\* node the requested returns
ReadsAt(k) == IF k <= Len(Order) THEN NodeParams(Order[k]) ELSE Range(Requested)

\* the loop over the nodes is over and the final extraction is still to come
LoopFinished(i) == inv[i].pc = "run" /\ inv[i].idx = Len(Order) + 1

CallNodes(i) == [k \in DOMAIN inv[i].calls |-> inv[i].calls[k][1]]

\* the last callable invoked in invocation i raised
LastCallRaised(i) ==
    /\ inv[i].calls # <<>>
    /\ inv[i].calls[Len(inv[i].calls)][2] = "raised"

\* C2: an invocation with the reference-counted store finds every name it
\* reads (node inputs and final returns) that the plain store holds, with the
\* same value, fails on a missing name only where the plain store does, and
\* returns the same result.
C2_MemAgreesWithBasic ==
    \A i, j \in Slots :
      (inv[i].cls = "dict" /\ inv[j].cls = "MemData"
          /\ call_kwargs[i] = call_kwargs[j]) =>
        /\ (inv[i].pc = "run" /\ inv[j].pc = "run" /\ inv[i].idx = inv[j].idx) =>
              \A x \in ReadsAt(inv[i].idx) :
                  x \in DOMAIN inv[i].data =>
                      /\ x \in DOMAIN inv[j].data
                      /\ inv[j].data[x] = inv[i].data[x]
        /\ (inv[i].pc = "done" /\ inv[j].pc = "done") =>
              inv[i].result = inv[j].result
        /\ inv[j].error.type = "KeyError" =>
              ~(inv[i].pc = "done" \/ inv[i].idx > inv[j].idx)
        /\ inv[i].error.type = "KeyError" =>
              ~(inv[j].pc = "done" \/ inv[j].idx > inv[i].idx)

\* both invocations returned, and a requested name that a node produces was
\* read by two nodes before the final extraction
C2_Witness ==
    /\ inv[1].pc = "done" /\ inv[2].pc = "done"
    /\ inv[1].cls = "dict" /\ inv[2].cls = "MemData"
    /\ \E x \in Range(Requested) :
          /\ x \in Range(AllReturns(graph))
          /\ counters[0][x] >= 3

Readers(x) == {k \in 1..Len(Order) : x \in NodeParams(Order[k])}
\* position 0 is the caller, who writes the keyword arguments
Writers(i, x) == {k \in 1..Len(Order) : x \in NodeReturns(Order[k])} \cup
                 (IF x \in DOMAIN call_kwargs[i] THEN {0} ELSE {})

\* x has been written and no node reads it, or a node writes it at or after
\* its last read
NeverEvicted(i, x) ==
    /\ Writers(i, x) # {}
    /\ Readers(x) = {} \/ Max(Writers(i, x)) >= Max(Readers(x))

\* C3 as stated, for a graph in which no output name is declared twice, a
\* returns list of node outputs, and an invocation that is called with
\* exactly the parameters of the signature: when the nodes have run, the
\* reference-counted store contains exactly the requested-return names.
C3_StoreIsExactlyRequested ==
    \A i \in Slots :
      (/\ inv[i].cls = "MemData" /\ LoopFinished(i)
       /\ ~HasDuplicates(AllReturns(graph))
       /\ Range(Requested) \subseteq Range(AllReturns(graph))
       /\ DOMAIN call_kwargs[i] = ParamNames(handler[1].signature)) =>
          DOMAIN inv[i].data = Range(Requested)

\* C3 amended: when the nodes have run, the reference-counted store contains
\* the requested-return names that were written, the names no node reads, and
\* the names a node wrote at or after their last read, and nothing else; the
\* final extraction then evicts the requested names as well.
C3_StoreAfterLoop ==
    \A i \in Slots :
      inv[i].cls = "MemData" =>
        /\ LoopFinished(i) =>
              DOMAIN inv[i].data =
                {x \in Names : \/ NeverEvicted(i, x)
                               \/ x \in Range(Requested) /\ Writers(i, x) # {}}
        /\ inv[i].pc = "done" =>
              DOMAIN inv[i].data =
                {x \in Names : NeverEvicted(i, x) /\ x \notin Range(Requested)}

\* the nodes of a graph without a repeated output name have run with exactly
\* the signature's arguments, and the store holds the requested outputs and a
\* node output that no node reads and that was not requested
C3_Witness ==
    \E i \in Slots :
      /\ inv[i].cls = "MemData" /\ LoopFinished(i)
      /\ ~HasDuplicates(AllReturns(graph))
      /\ DOMAIN call_kwargs[i] = ParamNames(handler[1].signature)
      /\ Range(Requested) \subseteq DOMAIN inv[i].data
      /\ \E x \in DOMAIN inv[i].data :
            /\ x \notin Range(Requested)
            /\ Readers(x) = {}
            /\ x \in Range(AllReturns(graph))

\* C4: when a node's callable raises, close() has been attempted on the
\* store, the invocation fails with the node execution error, and that error
\* names the failing node, its rendering and the keyword arguments passed;
\* the store's close() raising (dict and MemData have none) changes nothing.
C4_NodeErrorAfterClose ==
    \A i \in Slots :
      LastCallRaised(i) =>
        LET node == inv[i].calls[Len(inv[i].calls)][1]
            e == inv[i].error
        IN /\ inv[i].closes = 1
           /\ inv[i].pc = "failed"
           /\ e.type = "NodeError"
           /\ e.node = node
           /\ e.node_str # <<>>
           /\ e.node_str[1].node = node
           /\ e.node_str[1].callable = graph.attr[node].base_obj[1].name
           /\ e.node_str[1].sig = graph.attr[node].sig[1]
           /\ e.node_str[1].returns = graph.attr[node].returns[1]
           /\ DOMAIN e.kwargs = NodeParams(node)
           /\ inv[i].cls = "dict" =>
                 \A x \in DOMAIN e.kwargs : e.kwargs[x] = inv[i].data[x]

\* the callable of the second node raised and close() raised too
C4_Witness ==
    \E i \in Slots :
      /\ LastCallRaised(i)
      /\ Len(inv[i].calls) = 2
      /\ close_raises(inv[i].cls)

\* C5: a callable that raised is the last callable of its invocation: no
\* node is invoked after it, the invocation has failed without a result, and
\* no node is invoked twice.
C5_NoRetryNoRecovery ==
    \A i \in Slots :
      /\ ~HasDuplicates(CallNodes(i))
      /\ \A k \in DOMAIN inv[i].calls :
            inv[i].calls[k][2] = "raised" =>
              /\ k = Len(inv[i].calls)
              /\ inv[i].idx = k
              /\ inv[i].pc = "failed"
              /\ inv[i].result = <<>>

\* the first callable raised and two nodes were left to run
C5_Witness ==
    \E i \in Slots :
      /\ LastCallRaised(i)
      /\ Len(inv[i].calls) = 1
      /\ Len(Order) = 3

\* close() was called and raised
CloseFailed(i) == inv[i].closes > 0 /\ close_raises(inv[i].cls)

\* C6 as stated: a failure of close() that does not occur while a node error
\* is being unwound (close() failing after a successful run, in the final
\* extraction) propagates to the caller.
C6_CloseFailurePropagates ==
    \A i \in Slots :
      (CloseFailed(i) /\ ~LastCallRaised(i)) =>
        inv[i].pc = "failed" /\ inv[i].error.type = "AttributeError"

\* C6 amended: a failure of close() is suppressed both while a node error is
\* being unwound and after a successful run in the final extraction: the
\* invocation ends with the node error or returns its result, never with the
\* error of close().
C6_CloseFailureSuppressed ==
    \A i \in Slots :
      CloseFailed(i) =>
        /\ inv[i].error.type # "AttributeError"
        /\ \/ LastCallRaised(i) /\ inv[i].error.type = "NodeError"
           \/ /\ inv[i].pc = "done"
              /\ inv[i].result # <<>>
              /\ inv[i].error = NoError

\* every node ran, close() raised in the final extraction, the result came back
C6_Witness ==
    \E i \in Slots :
      /\ CloseFailed(i)
      /\ inv[i].pc = "done"
      /\ Len(inv[i].calls) = Len(Order)

-----------------------------------------------------------------------------
(* Claims about the graph operations, checked under SpecGraph. *)

DeclaredReturns(G, u) ==
    IF G.attr[u].returns = <<>> THEN {} ELSE Range(G.attr[u].returns[1])

SigParamNames(G, v) ==
    IF G.attr[v].sig = <<>> THEN {} ELSE ParamNames(G.attr[v].sig[1])

StrictlyIncreasing(s) == \A i, j \in DOMAIN s : i < j => s[i] < s[j]

ValIsSortedIntersection(G, e) ==
    /\ G.edges[e] # <<>>
    /\ Range(G.edges[e][1]) = DeclaredReturns(G, e[1]) \cap SigParamNames(G, e[2])
    /\ StrictlyIncreasing(G.edges[e][1])

\* C1 as stated: after any sequence of set_node_object, add_edge,
\* add_edges_from and add_grouped_edge calls, every edge (u, v) carries a val
\* equal to the sorted intersection of u's returns and v's parameter names.
C1_EveryEdgeHasVal ==
    \A e \in EdgeSet(graph) : ValIsSortedIntersection(graph, e)

\* C1 amended: after any sequence of those calls, every edge (u, v) whose
\* consumer v has a signature carries a val equal to the sorted intersection
\* of u's declared returns (none if u has no returns) and v's parameter names.
C1_EdgeValWhenConsumerHasSig ==
    \A e \in EdgeSet(graph) :
        graph.attr[e[2]].sig # <<>> => ValIsSortedIntersection(graph, e)

\* an edge carries two names, listed in sorted order although the producer
\* declares them in the other order
C1_Witness ==
    \E e \in EdgeSet(graph) :
        /\ graph.attr[e[2]].sig # <<>>
        /\ graph.edges[e] = <<<<3, 4>>>>
        /\ graph.attr[e[1]].returns = <<<<4, 3>>>>

-----------------------------------------------------------------------------
(* Two invocations of one handler, a BasicHandler or a MemHandler, each    *)
(* with its own keyword arguments, running one after the other or          *)
(* interleaved node by node (two threads calling the same handler object). *)

\* the graphs of the family in which the three nodes have different objects
ConcGraphs ==
    {G \in ExecGraphs :
        /\ G.nodes = <<1, 2, 3>>
        /\ Cardinality({G.attr[n].base_obj : n \in NodeSet(G)}) = 3}

InitConc ==
    \E G \in ConcGraphs, cls \in {"dict", "MemData"} :
      \E returns \in ReturnsLists(G), kw \in [Slots -> CallKwargs(G)] :
        /\ graph = G
        /\ raised = ""
        /\ handler = <<TopologicalHandler_init(G, returns)>>
        /\ counters = [i \in {0} \cup Slots |->
                         IF i = 0 THEN param_counter(G, returns) ELSE <<>>]
        /\ call_kwargs = kw
        /\ inv = [i \in Slots |-> Idle(cls)]

SpecConc == InitConc /\ [][NextExec]_vars

\* invocation i has ended, by returning or by raising
Ended(i) == inv[i].pc \in {"done", "failed"}

\* no callable raised in invocation i
NoCallRaised(i) == \A k \in DOMAIN inv[i].calls : inv[i].calls[k][2] = "returned"

\* two ended invocations with the same arguments in which no callable raised
\* ended the same way: same result or same error, same store contents
SameOutcome ==
    \A i, j \in Slots :
      (/\ call_kwargs[i] = call_kwargs[j]
       /\ Ended(i) /\ Ended(j) /\ NoCallRaised(i) /\ NoCallRaised(j)) =>
          /\ inv[i].pc = inv[j].pc
          /\ inv[i].result = inv[j].result
          /\ inv[i].error = inv[j].error
          /\ inv[i].data = inv[j].data

\* C8: a step of one invocation (its store's creation, a node's reads, writes
\* and evictions, the final extraction) changes neither the store nor the
\* counters of the other invocation nor the counter dict the handler holds,
\* and two invocations with the same arguments end with identical results.
C8_InvocationsIndependent ==
    [][/\ \A i \in Slots :
            inv'[i] # inv[i] =>
              /\ counters'[0] = counters[0]
              /\ \A j \in Slots \ {i} :
                    /\ inv'[j] = inv[j]
                    /\ counters'[inv[j].ref] = counters[inv[j].ref]
       /\ SameOutcome']_vars

\* two interleaved invocations of a MemHandler with the same arguments: one
\* has evicted an argument that the other, a node behind, still holds
C8_Witness ==
    /\ inv[1].cls = "MemData" /\ inv[2].cls = "MemData"
    /\ call_kwargs[1] = call_kwargs[2]
    /\ inv[1].pc = "run" /\ inv[2].pc = "run"
    /\ inv[1].idx = inv[2].idx + 1
    /\ \E x \in DOMAIN call_kwargs[1] :
          x \notin DOMAIN inv[1].data /\ x \in DOMAIN inv[2].data

-----------------------------------------------------------------------------
(* The signature of a graph: node objects are set on the nodes of a small  *)
(* graph, then a handler is constructed, which computes model_signature.   *)

\* the signatures (a, b), (a, b=2), (b=3), (a, *, b), (a, *, b=2)
sig_ab == <<Parameter(1, 1, 0), Parameter(2, 1, 0)>>
sig_ab2 == <<Parameter(1, 1, 0), Parameter(2, 1, 2)>>
sig_b3 == <<Parameter(2, 1, 3)>>
sig_a_kwb == <<Parameter(1, 1, 0), Parameter(2, 3, 0)>>
sig_a_kwb2 == <<Parameter(1, 1, 0), Parameter(2, 3, 2)>>
\* the signature (d=1, /) of a callable with a positional-only parameter
sig_d1_pos == <<Parameter(4, 0, 1)>>

SigCallables ==
    {Callable("g", sg) : sg \in {sig_ab, sig_ab2, sig_b3, sig_a_kwb, sig_a_kwb2,
                                 sig_d1_pos}}

\* the returns a node is given: a new name, or the name of an input
SigReturns == {<<3>>, <<1>>}

\* a chain of three nodes, listed from its head or from its tail
SigShapes == {<<<<1, 2>>, <<2, 3>>>>, <<<<3, 2>>, <<2, 1>>>>}

InitSig ==
    \E shape \in SigShapes :
        /\ graph = add_edges_from(EmptyGraph, shape)
        /\ raised = ""
        /\ handler = <<>>
        /\ counters = <<>>
        /\ call_kwargs = <<>>
        /\ inv = <<>>

\* set_node_object on the graph a handler has not been made of yet
SetNodeObjectSig ==
    \E node \in NodeIds, func \in SigCallables, returns \in SigReturns :
        /\ handler = <<>>
        /\ graph' = set_node_object(graph, node, func, returns, <<>>)
        /\ raised' = set_node_object_raises(graph, node, func, <<>>)
        /\ UNCHANGED <<handler, counters, call_kwargs, inv>>

\* TopologicalHandler(graph): the handler is made with the default returns,
\* unless model_signature raises in __init__
Construct ==
    /\ handler = <<>>
    /\ raised' = model_signature_raises(graph)
    /\ handler' = IF model_signature_raises(graph) # "" THEN handler
                  ELSE <<TopologicalHandler_init(graph, <<>>)>>
    /\ UNCHANGED <<graph, counters, call_kwargs, inv>>

NextSig == SetNodeObjectSig \/ Construct

SpecSig == InitSig /\ [][NextSig]_vars

\* the declarations of name x, in the order model_signature visits them
Declarations(G, x) == SelectSeq(AllParameters(G), LAMBDA q : q.name = x)

HasDefault(q) == q.dflt # 0

SameKind(decls) == \A k, m \in DOMAIN decls : decls[k].kind = decls[m].kind

\* x is declared without a default by one node and with one by another
MixedDefaults(decls) ==
    /\ \E k \in DOMAIN decls : HasDefault(decls[k])
    /\ \E k \in DOMAIN decls : ~HasDefault(decls[k])

\* the first-seen declaration that has a default
FirstWithDefault(decls) == SelectSeq(decls, HasDefault)[1]

\* the parameter the constructed handler's signature has for name x
Merged(x) ==
    LET sg == handler[1].signature
    IN sg[CHOOSE k \in DOMAIN sg : sg[k].name = x]

\* C9 as stated: a name declared without a default by one node and with a
\* default by another (same kind) is in the merged signature without the
\* default.
C9_NonDefaultWins ==
    handler # <<>> =>
      \A x \in ParamNames(handler[1].signature) :
        LET decls == Declarations(graph, x)
        IN (SameKind(decls) /\ MixedDefaults(decls)) => ~HasDefault(Merged(x))

\* C9 amended: a name declared without a default by one node and with a
\* default by another (same kind) is in the merged signature with the default,
\* whichever node is visited first: the merged parameter is the first-seen
\* declaration that has a default; when all declarations are equally specific
\* the first-seen one is kept.
C9_DefaultWins ==
    handler # <<>> =>
      \A x \in ParamNames(handler[1].signature) :
        LET decls == Declarations(graph, x)
        IN SameKind(decls) =>
             IF \E k \in DOMAIN decls : HasDefault(decls[k])
             THEN Merged(x) = FirstWithDefault(decls)
             ELSE Merged(x) = decls[1]

\* the handler is made of a graph in which b is declared first without a
\* default, then with the default 2, then with the default 3, all of one kind
C9_Witness ==
    /\ handler # <<>>
    /\ 2 \in ParamNames(handler[1].signature)
    /\ Declarations(graph, 2) =
          <<Parameter(2, 1, 0), Parameter(2, 1, 2), Parameter(2, 1, 3)>>

\* C10: the signature of a constructed handler contains no name that a node
\* of the graph lists in its returns, also when the name is an input of a
\* node and no edge carries it.
C10_NoReturnInSignature ==
    handler # <<>> =>
      ParamNames(handler[1].signature) \cap Range(AllReturns(graph)) = {}

\* the handler is made of a graph in which a is an input of every node with
\* an object, a return of one of them, and carried by no edge into a reader
C10_Witness ==
    /\ handler # <<>>
    /\ 1 \in Range(AllReturns(graph))
    /\ 1 \in ParamNames(AllParameters(graph))
    /\ \E n \in NodeSet(graph) :
          /\ graph.attr[n].sig # <<>>
          /\ 1 \in ParamNames(graph.attr[n].sig[1])
          /\ \A e \in EdgeSet(graph) :
                e[2] = n => (graph.edges[e] = <<>> \/ ~InSeq(1, graph.edges[e][1]))

\* the parameters are in the order kind, then without a default before with
\* a default, then name
OrderedByKindDefaultName(ps) ==
    \A k, m \in DOMAIN ps :
      k < m =>
        \/ ps[k].kind < ps[m].kind
        \/ ps[k].kind = ps[m].kind /\ ~HasDefault(ps[k]) /\ HasDefault(ps[m])
        \/ /\ ps[k].kind = ps[m].kind
           /\ HasDefault(ps[k]) = HasDefault(ps[m])
           /\ ps[k].name < ps[m].name

\* no parameter without a default follows a positional parameter with one
NoDefaultBeforeNonDefault(ps) ==
    \A k, m \in DOMAIN ps :
      (k < m /\ ps[k].kind \in {0, 1} /\ HasDefault(ps[k])) =>
          ~(ps[m].kind \in {0, 1} /\ ~HasDefault(ps[m]))

\* the merged parameters hold a positional-only parameter with a default and
\* a positional-or-keyword parameter without one
DefaultedPositionalOnly(ps) ==
    /\ \E k \in DOMAIN ps : ps[k].kind = 0 /\ HasDefault(ps[k])
    /\ \E m \in DOMAIN ps : ps[m].kind = 1 /\ ~HasDefault(ps[m])

\* C11 as stated: for every graph the parameter list of model_signature is
\* ordered by kind, then without a default before with a default, then name,
\* and is a legally constructible signature: the construction never fails
\* and no parameter without a default follows a positional one with a default.
C11_AlwaysLegal ==
    /\ raised # "ValueError"
    /\ handler # <<>> =>
          /\ OrderedByKindDefaultName(handler[1].signature)
          /\ NoDefaultBeforeNonDefault(handler[1].signature)

\* C11 amended: the parameter list of model_signature is ordered by kind,
\* then without a default before with a default, then name; it is a legally
\* constructible signature, and the construction succeeds, exactly when the
\* merged parameters do not hold a positional-only parameter with a default
\* together with a positional-or-keyword parameter without one; otherwise
\* the construction raises ValueError and no handler is made.
C11_LegalUnlessDefaultedPositionalOnly ==
    /\ handler # <<>> =>
          /\ raised = ""
          /\ OrderedByKindDefaultName(handler[1].signature)
          /\ NoDefaultBeforeNonDefault(handler[1].signature)
          /\ ~DefaultedPositionalOnly(handler[1].signature)
    /\ raised = "ValueError" =>
          /\ handler = <<>>
          /\ OrderedByKindDefaultName(model_signature(graph))
          /\ DefaultedPositionalOnly(model_signature(graph))

\* a handler is made of a graph in which b=3 is visited before a: the
\* signature lists a, without a default, before b
C11_Witness ==
    /\ handler # <<>>
    /\ AllParameters(graph) # <<>>
    /\ Head(AllParameters(graph)) = Parameter(2, 1, 3)
    /\ handler[1].signature = <<Parameter(1, 1, 0), Parameter(2, 1, 3)>>

-----------------------------------------------------------------------------
(* The five-node graph of the tests (conftest.py mmodel_G), executed with  *)
(* numbers. The names a, b, c, d, e, f, g, k, m, p are 1 .. 10 and the     *)
(* nodes add, subtract, poly, log, multiply are 1 .. 5, in the order the   *)
(* grouped edges add them.                                                 *)

subtraction == Callable("subtraction", <<Parameter(3, 1, 0), Parameter(4, 1, 0)>>)
polynomial == Callable("polynomial", <<Parameter(3, 1, 0), Parameter(6, 1, 0)>>)
multiplication ==
    Callable("multiplication", <<Parameter(5, 1, 0), Parameter(7, 1, 0)>>)

\* graph.py add_grouped_edges_from
RECURSIVE add_grouped_edges_from(_, _)
add_grouped_edges_from(G, group_edges) ==
    IF group_edges = <<>> THEN G
    ELSE add_grouped_edges_from(
             add_grouped_edge(G, group_edges[1][1], group_edges[1][2]),
             Tail(group_edges))

\* conftest.py mmodel_G
mmodel_G ==
    set_node_objects_from(
        add_grouped_edges_from(EmptyGraph,
            <<<<Single(1), Group(<<2, 3, 4>>)>>, <<Group(<<2, 3>>), Single(5)>>>>),
        <<<<1, addition, <<3>>>>, <<2, subtraction, <<5>>>>,
          <<3, polynomial, <<7, 10>>>>, <<5, multiplication, <<8>>>>,
          <<4, logarithm, <<9>>>>>>)

\* a number passed by the caller or filled in as a default
NumValue(n) == Value("num", "", n, <<>>)

\* utility.py parse_input for keyword arguments that bind: the arguments,
\* with the default of every parameter that was not passed
parse_input(signature, kwargs) ==
    LET defaulted == {k \in DOMAIN signature :
                        /\ signature[k].dflt # 0
                        /\ signature[k].name \notin DOMAIN kwargs}
    IN [x \in {signature[k].name : k \in defaulted} |->
           NumValue(signature[CHOOSE k \in defaulted : signature[k].name = x].dflt)]
       @@ kwargs

\* Model.__call__: the arguments are bound to the signature, defaults
\* applied, and the handler called with the result
Model_call(signature, kwargs) == parse_input(signature, kwargs)

RECURSIVE Pow(_, _)
Pow(x, n) == IF n = 0 THEN 1 ELSE x * Pow(x, n - 1)

\* the number a value stands for: the bodies of the test callables. The
\* value of logarithm is not an integer; its term is kept as it is
RECURSIVE Eval(_)
Eval(v) ==
    IF v.kind = "num" THEN v.out
    ELSE LET x(n) == Eval(v.args[n])
         IN CASE v.f = "addition" -> x(1) + x(2)
              [] v.f = "subtraction" -> x(3) - x(4)
              [] v.f = "polynomial" /\ v.out = 1 -> Pow(x(3), x(6))
              [] v.f = "polynomial" /\ v.out = 2 -> Pow(x(6), x(3))
              [] v.f = "multiplication" -> x(5) * x(7)

\* the calls of the tests: a, d, f passed, b passed or left to its default
ScenarioKwargs ==
    {[x \in {1, 4, 6} |-> NumValue(adf[x])] @@ b :
        adf \in {(1 :> 10 @@ 4 :> 15 @@ 6 :> 1), (1 :> 1 @@ 4 :> 2 @@ 6 :> 3),
                 (1 :> 10 @@ 4 :> 2 @@ 6 :> 3), (1 :> 1 @@ 4 :> 15 @@ 6 :> 1)},
        b \in {<<>>, (2 :> NumValue(2)), (2 :> NumValue(4))}}

InitScenario ==
    \E kw \in ScenarioKwargs :
        /\ graph = mmodel_G
        /\ raised = ""
        /\ handler = <<TopologicalHandler_init(mmodel_G, model_returns(mmodel_G))>>
        /\ counters = [i \in {0} \cup Slots |->
                         IF i = 0 THEN param_counter(mmodel_G, model_returns(mmodel_G))
                         ELSE <<>>]
        /\ call_kwargs = [i \in Slots |-> Model_call(model_signature(mmodel_G), kw)]
        /\ inv = [i \in Slots |-> Idle(IF i = 1 THEN "dict" ELSE "MemData")]

SpecScenario == InitScenario /\ [][NextExec]_vars

\* the arguments of the call before defaults: a, d, f and b when it was passed
Passed(x, n) == x \in DOMAIN call_kwargs[1] /\ call_kwargs[1][x] = NumValue(n)

\* C12: the merged signature is (a, d, f, b=2), the default returns are
\* [k, m, p], and a call with a=10, d=15, f=1 and b defaulted or 2 stores
\* c=12, e=-3, g=12, p=1, k=-36 and returns (k, m, p), m being what the log
\* node made of c=12 and b=2; the second call of the test, a=1, d=2, f=3,
\* b=4, returns k=375 and p=243.
C12_FiveNodeScenario ==
    /\ handler[1].signature =
          <<Parameter(1, 1, 0), Parameter(4, 1, 0), Parameter(6, 1, 0),
            Parameter(2, 1, 2)>>
    /\ handler[1].returns = <<8, 9, 10>>
    /\ \A i \in Slots :
          inv[i].pc = "done" =>
            LET res == inv[i].result[1]
            IN /\ Len(res) = 3
               /\ res[2].f = "logarithm" /\ DOMAIN res[2].args = {3, 2}
               /\ inv[i].cls = "dict" =>
                     res = <<inv[i].data[8], inv[i].data[9], inv[i].data[10]>>
               /\ (Passed(1, 10) /\ Passed(4, 15) /\ Passed(6, 1) /\ Passed(2, 2)) =>
                     /\ Eval(res[1]) = -36 /\ Eval(res[3]) = 1
                     /\ Eval(res[2].args[3]) = 12 /\ Eval(res[2].args[2]) = 2
                     /\ inv[i].cls = "dict" =>
                           /\ Eval(inv[i].data[3]) = 12
                           /\ Eval(inv[i].data[5]) = -3
                           /\ Eval(inv[i].data[7]) = 12
                           /\ Eval(inv[i].data[10]) = 1
                           /\ Eval(inv[i].data[8]) = -36
               /\ (Passed(1, 1) /\ Passed(4, 2) /\ Passed(6, 3) /\ Passed(2, 4)) =>
                     /\ Eval(res[1]) = 375 /\ Eval(res[3]) = 243
                     /\ Eval(res[2].args[3]) = 5 /\ Eval(res[2].args[2]) = 4

\* the call a=10, d=15, f=1 has returned from both handlers
C12_Witness ==
    /\ inv[1].pc = "done" /\ inv[2].pc = "done"
    /\ Passed(1, 10) /\ Passed(4, 15) /\ Passed(6, 1) /\ Passed(2, 2)

-----------------------------------------------------------------------------
(* The graph operations again: output names, failed calls, grouped edges.  *)

\* C13 as stated: after any sequence of set_node_object calls no output name
\* is declared by two different nodes, and no node lists a name twice.
C13_OutputNamesUnique ==
    /\ \A n1, n2 \in NodeSet(graph) :
          n1 # n2 => DeclaredReturns(graph, n1) \cap DeclaredReturns(graph, n2) = {}
    /\ \A n \in NodeSet(graph) :
          graph.attr[n].returns # <<>> => ~HasDuplicates(graph.attr[n].returns[1])

\* the call set_node_object(node, func, returns, inputs) renames more
\* parameters than func has
TooManyInputs(obj) == Len(obj[3]) > Len(obj[1].sig)

\* C14 as stated: set_node_object with more inputs than the callable has
\* parameters raises the signature modifier error, and a set_node_object call
\* that fails leaves the node's attributes and every edge's val as they were.
C14_FailedCallChangesNothing ==
    [][/\ \A node \in NodeSet(graph), obj \in NodeObjects :
             TooManyInputs(obj) =>
                set_node_object_raises(graph, node, obj[1], obj[3])
                    = "SignatureModifierError"
       /\ raised' \in {"SignatureModifierError", "KeyError"} => graph' = graph]_vars

\* the edges add_grouped_edge(u, v) asks for when at most one of them is a list
GroupedPairs(u, v) == {<<a, b>> : a \in Range(u.of), b \in Range(v.of)}

\* C16: on every graph the operations reach, add_grouped_edge(u, v) with two
\* lists raises and leaves the graph as it was; with one list it adds the
\* edges pairing each node of the list with the single endpoint, in the
\* direction given, and nothing else; with no list it adds the edge (u, v).
C16_GroupedEdge ==
    \A u \in Endpoints, v \in Endpoints :
        LET G2 == add_grouped_edge(graph, u, v)
        IN IF u.list /\ v.list
           THEN /\ add_grouped_edge_raises(u, v) = "Exception"
                /\ G2 = graph
           ELSE /\ add_grouped_edge_raises(u, v) = ""
                /\ EdgeSet(G2) = EdgeSet(graph) \cup GroupedPairs(u, v)
                /\ Cardinality(GroupedPairs(u, v)) =
                      IF u.list THEN Len(u.of) ELSE IF v.list THEN Len(v.of) ELSE 1
                /\ NodeSet(G2) = NodeSet(graph) \cup Range(u.of) \cup Range(v.of)
                /\ \A n \in NodeSet(graph) : G2.attr[n] = graph.attr[n]

\* a grouped edge with two lists was refused on a graph that has the two
\* edges of an earlier grouped edge
C16_Witness ==
    /\ raised = "Exception"
    /\ EdgeSet(graph) = {<<1, 3>>, <<2, 3>>}

-----------------------------------------------------------------------------
(* Graph validation. The graphs are plain networkx graphs put together as  *)
(* the validation tests do: edges and nodes first, then one attribute of a *)
(* node or the val of an edge at a time. A graph is the record of above    *)
(* with a field directed; raised is the outcome of validating the graph as *)
(* it is now: "unchecked", "" for success, or the assertion's message.     *)

\* utility.py is_node_attr_defined
is_node_attr_defined(G, attr) == \A n \in NodeSet(G) : G.attr[n][attr] # <<>>

\* utility.py is_edge_attr_defined, for the attribute "val"
is_edge_attr_defined(G) == \A e \in EdgeSet(G) : G.edges[e] # <<>>

\* nx.isolates: the nodes without a neighbour
isolates(G) ==
    {n \in NodeSet(G) : \A e \in EdgeSet(G) : e[1] # n /\ e[2] # n}

\* validation with the cycle check after the check for isolated nodes
is_valid_graph_isolates_first(G) ==
    IF ~G.directed THEN "invalid graph: undirected graph"
    ELSE IF Len(G.nodes) # 1 /\ isolates(G) # {}
         THEN "invalid graph: graph contains isolated nodes"
    ELSE IF HasCycle(G) THEN "invalid graph: graph contains cycles"
    ELSE IF ~is_node_attr_defined(G, "func")
         THEN "invalid graph: graph contains nodes with undefined callables"
    ELSE IF ~is_node_attr_defined(G, "returns")
         THEN "invalid graph: graph contains nodes with undefined callables returns"
    ELSE IF ~is_node_attr_defined(G, "sig")
         THEN "invalid graph: graph contains nodes with undefined callables signatures"
    ELSE IF ~is_edge_attr_defined(G)
         THEN "invalid graph: graph contains edges with undefined variable attributes"
    ELSE ""

\* Model._is_valid_graph: the message of the first assertion that fails,
\* "" when the graph is valid
is_valid_graph(G) ==
    IF ~G.directed THEN "invalid graph: undirected graph"
    ELSE IF HasCycle(G) THEN "invalid graph: graph contains cycles"
    ELSE IF Len(G.nodes) # 1 /\ isolates(G) # {}
         THEN "invalid graph: graph contains isolated nodes"
    ELSE IF ~is_node_attr_defined(G, "func")
         THEN "invalid graph: graph contains nodes with undefined callables"
    ELSE IF ~is_node_attr_defined(G, "returns")
         THEN "invalid graph: graph contains nodes with undefined callables returns"
    ELSE IF ~is_node_attr_defined(G, "sig")
         THEN "invalid graph: graph contains nodes with undefined callables signatures"
    ELSE IF ~is_edge_attr_defined(G)
         THEN "invalid graph: graph contains edges with undefined variable attributes"
    ELSE ""

\* the graphs of the validation tests, on three nodes: a 3-cycle, a 2-cycle,
\* a self-loop, a self-loop next to an isolated node, an edge next to an
\* isolated node, a chain, a single node
ValidShapes ==
    {[edges |-> <<<<1, 2>>, <<2, 3>>, <<3, 1>>>>, alone |-> <<>>],
     [edges |-> <<<<1, 2>>, <<2, 1>>>>, alone |-> <<>>],
     [edges |-> <<<<1, 1>>>>, alone |-> <<>>],
     [edges |-> <<<<1, 1>>>>, alone |-> <<2>>],
     [edges |-> <<<<1, 2>>>>, alone |-> <<3>>],
     [edges |-> <<<<1, 2>>, <<2, 3>>>>, alone |-> <<>>],
     [edges |-> <<>>, alone |-> <<1>>]}

\* nx.Graph() or nx.DiGraph(), add_edges_from, add_node
nx_graph(directed, shape) ==
    LET G == nx_add_edges_from(EmptyGraph, shape.edges)
        H == IF shape.alone = <<>> THEN G ELSE add_node(G, shape.alone[1])
    IN [nodes |-> H.nodes, attr |-> H.attr, edges |-> H.edges,
        directed |-> directed]

\* the value the tests give a node attribute
TestAttr(key) ==
    CASE key = "func" -> addition
      [] key = "returns" -> <<3>>
      [] key = "sig" -> addition.sig

InitValid ==
    /\ graph \in {nx_graph(d, shape) : d \in BOOLEAN, shape \in ValidShapes}
    /\ raised = "unchecked"
    /\ handler = <<>>
    /\ counters = <<>>
    /\ call_kwargs = <<>>
    /\ inv = <<>>

\* g.nodes[n][key] = value
SetNodeAttr ==
    \E n \in NodeSet(graph), key \in {"func", "returns", "sig"} :
        /\ graph' = [graph EXCEPT !.attr[n][key] = <<TestAttr(key)>>]
        /\ raised' = "unchecked"
        /\ UNCHANGED <<handler, counters, call_kwargs, inv>>

\* g.edges[u, v]["val"] = val, an empty list or a list of one name
SetEdgeVal ==
    \E e \in EdgeSet(graph), val \in {<<>>, <<3>>} :
        /\ graph' = [graph EXCEPT !.edges[e] = <<val>>]
        /\ raised' = "unchecked"
        /\ UNCHANGED <<handler, counters, call_kwargs, inv>>

\* Model._is_valid_graph(g)
Validate ==
    /\ raised' = is_valid_graph(graph)
    /\ UNCHANGED <<graph, handler, counters, call_kwargs, inv>>

NextValid == SetNodeAttr \/ SetEdgeVal \/ Validate

SpecValid == InitValid /\ [][NextValid]_vars

\* the checks, each stated on the graph by itself
Undirected == ~graph.directed
Cyclic ==
    \E path \in SeqsOf(NodeSet(graph), 1, 3) :
        /\ \A k \in 1..(Len(path) - 1) : <<path[k], path[k + 1]>> \in EdgeSet(graph)
        /\ <<path[Len(path)], path[1]>> \in EdgeSet(graph)
HasIsolated ==
    /\ Cardinality(NodeSet(graph)) > 1
    /\ \E n \in NodeSet(graph) :
          ~\E m \in NodeSet(graph) :
              <<n, m>> \in EdgeSet(graph) \/ <<m, n>> \in EdgeSet(graph)
Missing(key) == \E n \in NodeSet(graph) : graph.attr[n][key] = <<>>
MissingVal == \E e \in EdgeSet(graph) : graph.edges[e] = <<>>

\* the checks in the order of the claim, each with the message of its failure
Checks ==
    <<<<Undirected, "invalid graph: undirected graph">>,
      <<Cyclic, "invalid graph: graph contains cycles">>,
      <<HasIsolated, "invalid graph: graph contains isolated nodes">>,
      <<Missing("func"),
        "invalid graph: graph contains nodes with undefined callables">>,
      <<Missing("returns"),
        "invalid graph: graph contains nodes with undefined callables returns">>,
      <<Missing("sig"),
        "invalid graph: graph contains nodes with undefined callables signatures">>,
      <<MissingVal,
        "invalid graph: graph contains edges with undefined variable attributes">>>>

\* C15: a validation reports the first violated check in the order
\* undirected, cycles (self-loops too), isolated nodes, node without
\* callable, node without returns, node without signature, edge without val,
\* and succeeds only when no check is violated; an edge whose val is an
\* empty list passes the last check.
C15_FirstViolatedCheck ==
    raised # "unchecked" =>
        /\ \A k \in DOMAIN Checks :
              (Checks[k][1] /\ \A j \in 1..(k - 1) : ~Checks[j][1])
                  => raised = Checks[k][2]
        /\ raised = "" <=> \A k \in DOMAIN Checks : ~Checks[k][1]
        /\ (\A k \in 1..6 : ~Checks[k][1])
              /\ (\A e \in EdgeSet(graph) : graph.edges[e] = <<<<>>>>)
              => raised = ""

\* a validation reported the cycle of a graph that also has an isolated node
\* and nodes without callable
C15_Witness ==
    /\ raised = "invalid graph: graph contains cycles"
    /\ HasIsolated /\ Missing("func") /\ MissingVal

-----------------------------------------------------------------------------
(* Graph objects in memory. To tell a copy from an alias, graph is here the *)
(* memory: dict lists the attribute dicts (of nodes and of edges) by        *)
(* address, obj lists the graph objects, each with its nodes in insertion   *)
(* order and the address of the dict of every node and edge. An operation   *)
(* on a graph object is the operation of above on its value, written back   *)
(* through the addresses.                                                   *)

MaxCalls == 2

\* the value of graph object o
Load(M, o) ==
    LET ob == M.obj[o]
    IN [nodes |-> ob.nodes,
        attr  |-> [n \in DOMAIN ob.nref |-> M.dict[ob.nref[n]]],
        edges |-> [e \in DOMAIN ob.eref |-> M.dict[ob.eref[e]]]]

\* the elements of a set in some order
RECURSIVE SetToSeq(_)
SetToSeq(S) ==
    IF S = {} THEN <<>>
    ELSE LET x == CHOOSE y \in S : TRUE IN <<x>> \o SetToSeq(S \ {x})

IndexOf(x, s) == CHOOSE k \in DOMAIN s : s[k] = x

\* graph object o after an operation that left it with the value G2: the
\* dicts of the nodes and edges it keeps are updated in place, those of new
\* nodes and edges are new dicts
Store(M, o, G2) ==
    LET ob   == M.obj[o]
        newN == SelectSeq(G2.nodes, LAMBDA n : n \notin DOMAIN ob.nref)
        newE == SetToSeq(EdgeSet(G2) \ DOMAIN ob.eref)
        base == Len(M.dict)
        nref == [n \in NodeSet(G2) |->
                   IF n \in DOMAIN ob.nref THEN ob.nref[n]
                   ELSE base + IndexOf(n, newN)]
        eref == [e \in EdgeSet(G2) |->
                   IF e \in DOMAIN ob.eref THEN ob.eref[e]
                   ELSE base + Len(newN) + IndexOf(e, newE)]
    IN [dict |-> [a \in 1..(base + Len(newN) + Len(newE)) |->
                    IF \E n \in NodeSet(G2) : nref[n] = a
                    THEN G2.attr[CHOOSE n \in NodeSet(G2) : nref[n] = a]
                    ELSE IF \E e \in EdgeSet(G2) : eref[e] = a
                         THEN G2.edges[CHOOSE e \in EdgeSet(G2) : eref[e] = a]
                    ELSE M.dict[a]],
        obj  |-> [M.obj EXCEPT ![o] = [nodes |-> G2.nodes, nref |-> nref,
                                       eref |-> eref]]]

\* G = self.__class__()
new_graph(M) ==
    [M EXCEPT !.obj = Append(@, [nodes |-> <<>>, nref |-> <<>>, eref |-> <<>>])]

\* a copy that is a new graph object with the attribute dicts of the original
deepcopy_shallow(M, o) == [M EXCEPT !.obj = Append(@, M.obj[o])]

\* graph.py deepcopy: a new graph object, with a new dict, holding copies of
\* the values, for every node and edge. The copy is object Len(M.obj) + 1
deepcopy(M, o) == Store(new_graph(M), Len(M.obj) + 1, Load(M, o))

\* networkx remove_nodes_from: the nodes go, and the edges at them with them
remove_nodes_from(G, S) ==
    [nodes |-> SelectSeq(G.nodes, LAMBDA n : n \notin S),
     attr  |-> Restrict(G.attr, NodeSet(G) \ S),
     edges |-> Restrict(G.edges,
                        {e \in EdgeSet(G) : e[1] \notin S /\ e[2] \notin S})]

\* the new edges when every edge at the subgraph is kept with its ends in
\* the subgraph renamed, the edges inside the subgraph included
new_edges_keep_internal(G, S, subgraph_name) ==
    {<<IF e[1] \in S THEN subgraph_name ELSE e[1],
       IF e[2] \in S THEN subgraph_name ELSE e[2]>> :
        e \in {f \in EdgeSet(G) : f[1] \in S \/ f[2] \in S}}

\* utility.py modify_subgraph: set(new_edges)
new_edges(G, S, subgraph_name) ==
    {<<e[1], subgraph_name>> : e \in {f \in EdgeSet(G) : f[1] \notin S /\ f[2] \in S}}
    \cup
    {<<subgraph_name, e[2]>> : e \in {f \in EdgeSet(G) : f[1] \in S /\ f[2] \notin S}}

\* utility.py modify_subgraph, on the copy, up to the look-up of the returns
redirect_subgraph(G, S, subgraph_name) ==
    add_edges_from(remove_nodes_from(G, S), SetToSeq(new_edges(G, S, subgraph_name)))

\* subgraph_returns, or subgraph_obj.returns when it is None
subgraph_returns_of(subgraph_obj, subgraph_returns) ==
    IF subgraph_returns # <<>> THEN subgraph_returns
    ELSE IF "returns" \in DOMAIN subgraph_obj THEN <<subgraph_obj.returns>>
    ELSE <<>>

\* utility.py modify_subgraph: the exception the call raises ("" if none)
modify_subgraph_raises(G, S, subgraph_name, subgraph_obj, subgraph_returns) ==
    IF subgraph_returns_of(subgraph_obj, subgraph_returns) = <<>> THEN "Exception"
    ELSE set_node_object_raises(redirect_subgraph(G, S, subgraph_name),
                                subgraph_name, subgraph_obj, <<>>)

\* utility.py modify_subgraph: the copy when the call returns or raises
modify_subgraph_copy(G, S, subgraph_name, subgraph_obj, subgraph_returns) ==
    LET G2 == redirect_subgraph(G, S, subgraph_name)
        returns == subgraph_returns_of(subgraph_obj, subgraph_returns)
    IN IF returns = <<>> THEN G2
       ELSE set_node_object(G2, subgraph_name, subgraph_obj, returns[1], <<>>)

\* a call that copies graph object o, works on the copy and returns it: when
\* it raises, the copy is dropped, what was written to the dicts stays
copy_and_modify(M, copied, G2, raises) ==
    LET M2 == Store(copied, Len(M.obj) + 1, G2)
    IN IF raises = "" THEN M2 ELSE [M2 EXCEPT !.obj = M.obj]

\* utility.py modify_subgraph on graph object o
modify_subgraph(M, o, S, subgraph_name, subgraph_obj, subgraph_returns) ==
    LET copied == deepcopy(M, o)
        G == Load(copied, Len(M.obj) + 1)
    IN copy_and_modify(M, copied,
           modify_subgraph_copy(G, S, subgraph_name, subgraph_obj, subgraph_returns),
           modify_subgraph_raises(G, S, subgraph_name, subgraph_obj, subgraph_returns))

\* utility.py modify_node: the exception the call raises ("" if none); the
\* modifiers are none, or one signature_modifier with the given parameters
modify_node_raises(G, node, parameters) ==
    IF node \notin NodeSet(G) \/ G.attr[node].func = <<>> THEN "KeyError"
    ELSE set_node_object_raises(G, node, G.attr[node].func[1], parameters)

\* utility.py modify_node, on the copy
modify_node_copy(G, node, parameters, node_returns) ==
    IF node \notin NodeSet(G) \/ G.attr[node].func = <<>> THEN G
    ELSE set_node_object(G, node, G.attr[node].func[1],
                         IF node_returns # <<>> THEN node_returns[1]
                         ELSE G.attr[node].returns[1],
                         parameters)

\* utility.py modify_node on graph object o
modify_node(M, o, node, parameters, node_returns) ==
    LET copied == deepcopy(M, o)
        G == Load(copied, Len(M.obj) + 1)
    IN copy_and_modify(M, copied, modify_node_copy(G, node, parameters, node_returns),
                       modify_node_raises(G, node, parameters))

\* the subgraph of G on the nodes S, as graph.subgraph(S) shows it
subgraph(G, S) == remove_nodes_from(G, NodeSet(G) \ S)

\* a replacement callable for the nodes S of G: called with the arguments the
\* subgraph needs, it returns what the nodes of the subgraph compute for the
\* names in returns
Submodel(G, S, returns) ==
    [name    |-> "submodel",
     sig     |-> model_signature(subgraph(G, S)),
     pairs   |-> [i \in DOMAIN model_signature(subgraph(G, S)) |->
                     <<model_signature(subgraph(G, S))[i].name,
                       model_signature(subgraph(G, S))[i].name>>],
     sub     |-> subgraph(G, S),
     returns |-> returns]

\* handler.py __call__, run_node and finish of a BasicHandler whose callables
\* do not raise, as a function of the graph, the returns and the arguments;
\* ok is FALSE when a read of the store raises KeyError
RECURSIVE run_nodes(_, _, _)
RECURSIVE call_output(_, _, _)

call_output(func, kwargs, i) ==
    IF "sub" \in DOMAIN func
    THEN LET inner == run_nodes(func.sub, graph_topological_sort(func.sub),
                                [ok |-> TRUE, data |-> CallArgs(func, kwargs)])
             out == [k \in DOMAIN func.returns |-> inner.data[func.returns[k]]]
         IN IF i = 0 /\ Len(func.returns) = 1 THEN out[1]
            ELSE IF i = 0 THEN out ELSE out[i]
    ELSE Output(func, kwargs, i)

run_nodes(G, order, store) ==
    IF order = <<>> \/ ~store.ok THEN store
    ELSE LET node_attr == G.attr[Head(order)]
             parameters == ParamNames(node_attr.sig[1])
             returns == node_attr.returns[1]
             func == node_attr.func[1]
             kwargs == Restrict(store.data, parameters)
             last(x) == CHOOSE k \in DOMAIN returns :
                          /\ returns[k] = x
                          /\ \A m \in DOMAIN returns : returns[m] = x => m <= k
         IN IF ~(parameters \subseteq DOMAIN store.data)
            THEN [ok |-> FALSE, data |-> store.data]
            ELSE run_nodes(G, Tail(order),
                   [ok |-> TRUE,
                    data |-> IF Len(returns) = 1
                             THEN (returns[1] :> call_output(func, kwargs, 0))
                                  @@ store.data
                             ELSE [x \in Range(returns) |->
                                      call_output(func, kwargs, last(x))]
                                  @@ store.data])

\* BasicHandler(G, returns)(**kwargs): ok is FALSE when the construction
\* raises (a cycle) or the call raises KeyError
Execute(G, returns, kwargs) ==
    IF HasCycle(G) THEN [ok |-> FALSE, result |-> <<>>]
    ELSE LET store == run_nodes(G, graph_topological_sort(G),
                                [ok |-> TRUE, data |-> kwargs])
         IN IF ~store.ok \/ ~(Range(returns) \subseteq DOMAIN store.data)
            THEN [ok |-> FALSE, result |-> <<>>]
            ELSE [ok |-> TRUE,
                  result |-> IF Len(returns) = 1 THEN store.data[returns[1]]
                             ELSE [k \in DOMAIN returns |-> store.data[returns[k]]]]

\* the graphs the calls start from: a chain, a fork and a join with a -> c
\* at node 1, c, a -> d at node 2 and c -> e, b at node 3
CopyObjects == <<<<1, f1, <<3>>>>, <<2, f2, <<4>>>>, <<3, f3, <<5, 2>>>>>>
CopyGraphs ==
    {set_node_objects_from(add_edges_from(EmptyGraph, shape), CopyObjects) :
       shape \in {<<<<1, 2>>, <<2, 3>>>>, <<<<1, 2>>, <<1, 3>>>>,
                  <<<<1, 3>>, <<2, 3>>>>}}

\* the name of the node that replaces a subgraph
SubgraphName == 4

\* every output the nodes S of G declare, sorted
all_returns(G, S) == SetToSortedSeq(UNION {DeclaredReturns(G, n) : n \in S})

\* modify_subgraph's (subgraph_obj, subgraph_returns) for the nodes S of G: a
\* replacement with a returns attribute, one without and the returns passed,
\* one without and no returns passed
SubgraphObjects(G, S) ==
    {<<Submodel(G, S, all_returns(G, S)), <<>>>>,
     <<f1, <<all_returns(G, S)>>>>,
     <<f1, <<>>>>}

\* the subgraphs: some of the nodes that have a node object
Subgraphs(G) == (SUBSET {n \in NodeSet(G) : G.attr[n].func # <<>>}) \ {{}}

\* modify_node's (parameters of the signature_modifier, node_returns)
NodeModifiers == {<<<<>>, <<>>>>, <<<<5>>, <<<<4>>>>>>, <<<<1, 2, 3>>, <<>>>>}

Objects == DOMAIN graph.obj

TheCall(op, o, result) == [op |-> op, graph |-> o, result |-> result]

InitCopy ==
    /\ graph \in {Store(new_graph([dict |-> <<>>, obj |-> <<>>]), 1, G) :
                     G \in CopyGraphs}
    /\ raised = ""
    /\ handler = <<>>
    /\ counters = 0
    /\ call_kwargs = <<>>
    /\ inv = <<>>

\* what every call does besides: it is counted, and its result is a new
\* graph object or none
AfterCall(op, o, args) ==
    /\ counters' = counters + 1
    /\ call_kwargs' = TheCall(op, o, IF raised' = "" /\ Len(graph'.obj) > Len(graph.obj)
                                     THEN Len(graph'.obj) ELSE 0) @@ args
    /\ UNCHANGED <<handler, inv>>

DeepCopy ==
    /\ counters < MaxCalls
    /\ \E o \in Objects :
        /\ graph' = deepcopy(graph, o)
        /\ raised' = ""
        /\ AfterCall("deepcopy", o, <<>>)

ModifyNode ==
    /\ counters < MaxCalls
    /\ \E o \in Objects :
      \E node \in NodeSet(Load(graph, o)), m \in NodeModifiers :
        /\ graph' = modify_node(graph, o, node, m[1], m[2])
        /\ raised' = modify_node_raises(Load(graph, o), node, m[1])
        /\ AfterCall("modify_node", o, <<>>)

ModifySubgraph ==
    /\ counters < MaxCalls
    /\ \E o \in Objects :
      \E S \in Subgraphs(Load(graph, o)) :
        \E so \in SubgraphObjects(Load(graph, o), S) :
          /\ SubgraphName \notin NodeSet(Load(graph, o))
          /\ graph' = modify_subgraph(graph, o, S, SubgraphName, so[1], so[2])
          /\ raised' = modify_subgraph_raises(Load(graph, o), S, SubgraphName,
                                              so[1], so[2])
          /\ AfterCall("modify_subgraph", o,
                       [subgraph |-> S, subgraph_obj |-> so[1],
                        subgraph_returns |-> so[2]])

\* graph.set_node_object(node, func, returns) on graph object o
SetNodeObjectOn ==
    /\ counters < MaxCalls
    /\ \E o \in Objects :
      \E node \in NodeSet(Load(graph, o)) :
        /\ graph' = Store(graph, o,
                          set_node_object(Load(graph, o), node, addition, <<3>>, <<>>))
        /\ raised' = ""
        /\ AfterCall("set_node_object", o, <<>>)

\* graph.add_edge(u, v) on graph object o
AddEdgeOn ==
    /\ counters < MaxCalls
    /\ \E o \in Objects :
      \E e \in {<<1, 3>>, <<3, 2>>} :
        /\ graph' = Store(graph, o, add_edge(Load(graph, o), e[1], e[2]))
        /\ raised' = ""
        /\ AfterCall("add_edge", o, <<>>)

NextCopy == DeepCopy \/ ModifyNode \/ ModifySubgraph \/ SetNodeObjectOn \/ AddEdgeOn

SpecCopy == InitCopy /\ [][NextCopy]_vars

-----------------------------------------------------------------------------
(* Claims about the copying operations, checked under SpecCopy. After a    *)
(* call, call_kwargs names it: the graph object it was given, the object   *)
(* it returned (0 if none) and, for modify_subgraph, its arguments.        *)

LastCallIs(op) == call_kwargs # <<>> /\ call_kwargs.op = op

\* the last call was a modify_subgraph whose returns list was supplied or
\* could be read from the replacement
SubgraphCall ==
    /\ LastCallIs("modify_subgraph")
    /\ subgraph_returns_of(call_kwargs.subgraph_obj, call_kwargs.subgraph_returns)
          # <<>>

Given == Load(graph, call_kwargs.graph)
Returned == Load(graph, call_kwargs.result)

\* C17 as stated: modify_subgraph returns a graph whose nodes are the
\* original nodes without the subgraph's plus the replacement, and whose
\* edges are the original edges between outside nodes, one edge
\* (p, replacement) for each outside p with an edge into the subgraph and
\* one edge (replacement, c) for each outside c with an edge out of it.
C17_SubgraphReplaced ==
    SubgraphCall =>
        /\ call_kwargs.result # 0
        /\ LET S == call_kwargs.subgraph
               outside == NodeSet(Given) \ S
           IN /\ NodeSet(Returned) = outside \cup {SubgraphName}
              /\ EdgeSet(Returned) =
                    {e \in EdgeSet(Given) : e[1] \in outside /\ e[2] \in outside}
                    \cup {<<p, SubgraphName>> : p \in
                            {q \in outside : \E n \in S : <<q, n>> \in EdgeSet(Given)}}
                    \cup {<<SubgraphName, c>> : c \in
                            {q \in outside : \E n \in S : <<n, q>> \in EdgeSet(Given)}}

\* the arguments of an execution: every parameter of the signature
ExecuteKwargs(G) == KwargsOf(ParamNames(model_signature(G)))

\* the last call replaced a subgraph by a callable that computes every
\* output of the subgraph from the subgraph's inputs
SubmodelCall ==
    /\ SubgraphCall
    /\ "sub" \in DOMAIN call_kwargs.subgraph_obj

\* C18 as stated: for every graph and every subgraph whose replacement
\* computes the subgraph's outputs from its inputs, executing the graph
\* modify_subgraph returns yields the values of the requested outputs that
\* executing the original graph yields.
C18_CollapsedExecutesAlike ==
    SubmodelCall =>
        /\ call_kwargs.result # 0
        /\ Execute(Given, model_returns(Given), ExecuteKwargs(Given)).ok =>
              Execute(Returned, model_returns(Given), ExecuteKwargs(Given))
                  = Execute(Given, model_returns(Given), ExecuteKwargs(Given))

\* C19: deepcopy, modify_node and modify_subgraph change no graph that
\* exists when they are called, also when they raise, and deepcopy's result
\* has the value of the graph it was given; a set_node_object or add_edge
\* changes no graph but the one it is called on.
C19_CopiesAreIndependent ==
    [][/\ \A o \in Objects :
             \/ call_kwargs'.op \in {"set_node_object", "add_edge"}
                  /\ call_kwargs'.graph = o
             \/ Load(graph', o) = Load(graph, o)
       /\ call_kwargs'.op = "deepcopy" =>
             Load(graph', call_kwargs'.result) = Load(graph, call_kwargs'.graph)]_vars

\* a node of the graph modify_node returned was given another node object,
\* and the graph modify_node was given differs from it
C19_Witness ==
    /\ LastCallIs("set_node_object")
    /\ call_kwargs.graph = 2
    /\ Len(graph.obj) = 2
    /\ Load(graph, 1) # Load(graph, 2)
    /\ Load(graph, 1) \in CopyGraphs

-----------------------------------------------------------------------------
(* A handler and the graph it was made from. The caller keeps the graph    *)
(* object it passed to the handler and calls set_node_object and add_edge  *)
(* on it between the invocations of the handler.                           *)

\* no invocation is under way
Quiet == \A i \in Slots : inv[i].pc # "run"

\* another callable of one parameter, a
f1_other == Callable("f1_other", <<Parameter(1, 1, 0)>>)

InitMutate ==
    \E G \in CopyGraphs :
        /\ graph = G
        /\ raised = ""
        /\ handler = <<TopologicalHandler_init(G, model_returns(G))>>
        /\ counters = [i \in {0} \cup Slots |->
                         IF i = 0 THEN param_counter(G, model_returns(G)) ELSE <<>>]
        /\ call_kwargs = [i \in Slots |-> KwargsOf(ParamNames(model_signature(G)))]
        /\ inv = [i \in Slots |-> Idle(IF i = 1 THEN "dict" ELSE "MemData")]

\* the caller's graph.set_node_object(node, f1_other, ["c"])
CallerSetNodeObject ==
    \E node \in {1, 2} :
        /\ Quiet
        /\ graph' = set_node_object(graph, node, f1_other, <<3>>, <<>>)
        /\ raised' = ""
        /\ UNCHANGED <<handler, counters, call_kwargs, inv>>

\* the caller's graph.add_edge(u, v), between old nodes or to a new one
CallerAddEdge ==
    \E e \in {<<1, 3>>, <<3, 4>>} :
        /\ Quiet
        /\ graph' = add_edge(graph, e[1], e[2])
        /\ raised' = ""
        /\ UNCHANGED <<handler, counters, call_kwargs, inv>>

NextMutate == NextExec \/ CallerSetNodeObject \/ CallerAddEdge

SpecMutate == InitMutate /\ [][NextMutate]_vars

\* the node object node n had when the handler was constructed
Built(n) == CopyObjects[n]

\* C20 as stated: after the handler is constructed, what the caller does to
\* the graph it passed changes neither the callables and signatures the
\* invocations use nor the order and the signature of the handler: every
\* node an invocation has run was called as the callable it had at
\* construction, with that callable's parameters, and its outputs stored
\* under the names it had then.
C20_HandlerUnaffectedByCaller ==
    /\ handler[1].signature = <<Parameter(1, 1, 0)>>
    /\ Range(handler[1].order) = {1, 2, 3}
    /\ \A k \in DOMAIN inv[1].calls :
          inv[1].calls[k][2] = "returned" =>
             \A x \in Range(Built(inv[1].calls[k][1])[3]) :
                /\ x \in DOMAIN inv[1].data
                /\ inv[1].data[x].f = Built(inv[1].calls[k][1])[2].name
                /\ DOMAIN inv[1].data[x].args
                      = ParamNames(Built(inv[1].calls[k][1])[2].sig)

-----------------------------------------------------------------------------
(* Claims about the final extraction and the node outputs, checked under   *)
(* SpecExec.                                                               *)

\* invocation i takes the step of finish and returns
Returns(i) == inv[i].pc = "run" /\ inv'[i].pc = "done"

\* the names no edge carries, and the names some edge carries
DefaultReturns == Range(model_returns(graph))
Intermediate ==
    UNION {Range(graph.edges[e][1]) : e \in {d \in EdgeSet(graph) : graph.edges[d] # <<>>}}

\* C21: a successful invocation returns the value the store holds under the
\* requested name when exactly one name is requested, and otherwise the tuple
\* of the values the store holds under the requested names, in the order of
\* the requested list; close() is tried once in the same step, after the
\* extraction.
C21_ResultInRequestedOrder ==
    [][\A i \in Slots :
         Returns(i) =>
           /\ inv'[i].result =
                << IF Len(Requested) = 1 THEN inv[i].data[Requested[1]]
                   ELSE [k \in 1..Len(Requested) |-> inv[i].data[Requested[k]]] >>
           /\ inv'[i].closes = inv[i].closes + 1]_vars

\* an invocation returned a pair whose names are requested against the
\* alphabetical order, one of them an intermediate name and the other a
\* default return that the graph lists after it
C21_Witness ==
    \E i \in Slots :
      /\ inv[i].pc = "done"
      /\ Len(Requested) = 2
      /\ Requested[1] > Requested[2]
      /\ Requested[1] \in DefaultReturns
      /\ Requested[2] \in Intermediate
      /\ Len(inv[i].result[1]) = 2
      /\ inv[i].result[1][1] # inv[i].result[1][2]
      /\ inv[i].closes = 1

-----------------------------------------------------------------------------
(* model_returns as a function of the graph: it is called on graphs whose  *)
(* nodes all have an object and on graphs where only the first node has.   *)

ReturnsGraphs ==
    ExecGraphs \cup
    {set_node_objects_from(add_edges_from(EmptyGraph, shape),
                           <<<<1, o[1], o[2]>>>>) :
       shape \in ExecShapes, o \in ExecObjects}

InitReturns ==
    /\ graph \in ReturnsGraphs
    /\ raised = ""
    /\ handler = <<>>
    /\ counters = <<>>
    /\ call_kwargs = <<>>
    /\ inv = <<>>

\* model_returns(graph): call_kwargs holds the list returned, raised the
\* exception
ModelReturns ==
    /\ call_kwargs = <<>>
    /\ raised = ""
    /\ raised' = IF model_returns_raises(graph) THEN "KeyError" ELSE ""
    /\ call_kwargs' = IF model_returns_raises(graph) THEN <<0>>
                      ELSE <<model_returns(graph)>>
    /\ UNCHANGED <<graph, handler, counters, inv>>

NextReturns == ModelReturns

SpecReturns == InitReturns /\ [][NextReturns]_vars

AllNodesHaveReturns == \A n \in NodeSet(graph) : graph.attr[n].returns # <<>>
AllEdgesHaveVal == \A e \in EdgeSet(graph) : graph.edges[e] # <<>>
DeclaredBySomeNode(x) ==
    \E n \in NodeSet(graph) : InSeq(x, graph.attr[n].returns[1])
CarriedBySomeEdge(x) ==
    \E e \in EdgeSet(graph) : InSeq(x, graph.edges[e][1])

\* C22: on a graph whose nodes all have returns and whose edges all have
\* val, model_returns does not raise and yields a strictly increasing list
\* (sorted, no duplicate) that holds exactly the names some node declares as
\* an output and no edge carries.
C22_ModelReturns ==
    (call_kwargs # <<>> /\ AllNodesHaveReturns /\ AllEdgesHaveVal) =>
      /\ raised = ""
      /\ StrictlyIncreasing(call_kwargs[1])
      /\ \A x \in Names :
           InSeq(x, call_kwargs[1]) <=>
             (DeclaredBySomeNode(x) /\ ~CarriedBySomeEdge(x))

\* model_returns returned two names of a graph in which two nodes declare
\* the same name and an edge carries a declared name
C22_Witness ==
    /\ call_kwargs # <<>> /\ raised = ""
    /\ AllNodesHaveReturns /\ AllEdgesHaveVal
    /\ Len(call_kwargs[1]) = 2
    /\ \E x \in Names : DeclaredBySomeNode(x) /\ CarriedBySomeEdge(x)
    /\ \E n, m \in NodeSet(graph) :
          n # m /\ graph.attr[n].returns[1] = graph.attr[m].returns[1]

-----------------------------------------------------------------------------
(* modifier.py loop_modifier: a call of the wrapped callable, one step per *)
(* element of the looped list. handler holds the wrapped callable,         *)
(* call_kwargs the keyword arguments of the call, inv the frame of         *)
(* loop_wrapped: the arguments left after the pop, the list, the position  *)
(* in it, the calls of the base callable made so far and the results.      *)

MaxLoop == 2

\* loop_modifier(func, parameter): the closure loop_wrapped
loop_modifier(func, parameter) == [func |-> func, parameter |-> parameter]

\* func(**kwargs) of a test callable raises TypeError when a parameter
\* without a default is not passed
base_raises(func, kwargs) ==
    \E k \in DOMAIN func.sig :
        func.sig[k].dflt = 0 /\ func.sig[k].name \notin DOMAIN kwargs

\* func(**kwargs) of a test callable: Python fills the defaults in
base_call(func, kwargs) == Output(func, parse_input(func.sig, kwargs), 0)

\* the keyword arguments of one call of the base callable:
\* func(**kwargs, **{parameter: value})
loop_kwargs(kwargs, parameter, value) == (parameter :> value) @@ kwargs

\* the loop with every result put in front of the earlier ones
loop_wrapped_step_prepend(frame, w) ==
    LET args == loop_kwargs(frame.kwargs, w.parameter, frame.loop_values[frame.k])
    IN IF base_raises(w.func, args)
       THEN [frame EXCEPT !.pc = "failed", !.calls = Append(@, args)]
       ELSE [frame EXCEPT !.calls = Append(@, args), !.k = @ + 1,
                          !.result = <<base_call(w.func, args)>> \o @]

\* one turn of the list comprehension of loop_wrapped
loop_wrapped_step(frame, w) ==
    LET args == loop_kwargs(frame.kwargs, w.parameter, frame.loop_values[frame.k])
    IN IF base_raises(w.func, args)
       THEN [frame EXCEPT !.pc = "failed", !.calls = Append(@, args)]
       ELSE [frame EXCEPT !.calls = Append(@, args), !.k = @ + 1,
                          !.result = Append(@, base_call(w.func, args))]

\* the callables that are wrapped, and the numbers they are called with
\* a list passed by the caller
ListValue(vs) == Value("list", "", 0, vs)

LoopCallables == {addition, subtraction}
LoopNumbers == {1, 2}

\* the calls: a list of up to MaxLoop numbers for one parameter, or nothing,
\* and for every other parameter a number or nothing
LoopKwargs(func) ==
    LET names == ParamNames(func.sig)
        lists == {ListValue([k \in DOMAIN s |-> NumValue(s[k])]) :
                     s \in SeqsOf(LoopNumbers, 0, MaxLoop)}
    IN UNION {{Restrict(kw, K) : K \in SUBSET names} :
                 kw \in UNION {[names -> lists \cup {NumValue(n)}] :
                                  n \in LoopNumbers}}

IdleLoop ==
    [pc |-> "idle", kwargs |-> <<>>, loop_values |-> <<>>, k |-> 1,
     calls |-> <<>>, result |-> <<>>]

InitLoop ==
    \E func \in LoopCallables :
      \E parameter \in ParamNames(func.sig), kw \in LoopKwargs(func) :
        /\ \A x \in DOMAIN kw : (x = parameter) = (kw[x].kind = "list")
        /\ graph = EmptyGraph
        /\ raised = ""
        /\ handler = <<loop_modifier(func, parameter)>>
        /\ counters = <<>>
        /\ call_kwargs = kw
        /\ inv = IdleLoop

\* loop_wrapped(**kwargs), its first statement: kwargs.pop(parameter)
LoopCall ==
    /\ inv.pc = "idle"
    /\ LET parameter == handler[1].parameter
       IN IF parameter \notin DOMAIN call_kwargs
          THEN /\ inv' = [inv EXCEPT !.pc = "failed"]
               /\ raised' = "KeyError"
          ELSE /\ inv' = [inv EXCEPT
                            !.pc = "loop",
                            !.loop_values = call_kwargs[parameter].args,
                            !.kwargs = Restrict(call_kwargs,
                                                DOMAIN call_kwargs \ {parameter})]
               /\ raised' = ""
    /\ UNCHANGED <<graph, handler, counters, call_kwargs>>

\* the next element of the list
LoopStep ==
    /\ inv.pc = "loop"
    /\ inv.k <= Len(inv.loop_values)
    /\ inv' = loop_wrapped_step(inv, handler[1])
    /\ raised' = IF inv'.pc = "failed" THEN "TypeError" ELSE ""
    /\ UNCHANGED <<graph, handler, counters, call_kwargs>>

\* the list is exhausted: the comprehension's list is returned
LoopReturn ==
    /\ inv.pc = "loop"
    /\ inv.k = Len(inv.loop_values) + 1
    /\ inv' = [inv EXCEPT !.pc = "done"]
    /\ UNCHANGED <<graph, raised, handler, counters, call_kwargs>>

NextLoop == LoopCall \/ LoopStep \/ LoopReturn

SpecLoop == InitLoop /\ [][NextLoop]_vars

\* the arguments of the call other than the looped one
FixedKwargs ==
    Restrict(call_kwargs, DOMAIN call_kwargs \ {handler[1].parameter})

\* the numbers a list of values stands for
Numbers(vs) == [k \in DOMAIN vs |-> Eval(vs[k])]

\* C23: the wrapped callable, called with a list for the looped parameter,
\* calls the base callable once per element, the k-th call with the k-th
\* element for the looped parameter and every other argument as passed, and
\* returns the list of the results of these calls in the order of the
\* elements (the empty list for the empty list); addition(a, b=2) looped
\* over a and called with a=[1, 2], b=2 returns [3, 4].
C23_LoopOncePerElement ==
    LET w == handler[1]
        values == call_kwargs[w.parameter].args
        nth(k) == (w.parameter :> values[k]) @@ FixedKwargs
    IN /\ inv.pc # "idle" /\ raised # "KeyError" =>
            /\ Len(inv.calls) <= Len(values)
            /\ \A k \in DOMAIN inv.calls : inv.calls[k] = nth(k)
       /\ inv.pc = "done" =>
            /\ Len(inv.calls) = Len(values)
            /\ Len(inv.result) = Len(values)
            /\ \A k \in DOMAIN values : inv.result[k] = base_call(w.func, nth(k))
            /\ (/\ w = loop_modifier(addition, 1)
                /\ call_kwargs = (1 :> ListValue(<<NumValue(1), NumValue(2)>>)
                                   @@ 2 :> NumValue(2)))
                 => Numbers(inv.result) = <<3, 4>>

\* addition looped over a was called with a=[1, 2], b=2, made two calls of
\* addition and returned
C23_Witness ==
    /\ inv.pc = "done"
    /\ handler[1] = loop_modifier(addition, 1)
    /\ call_kwargs = (1 :> ListValue(<<NumValue(1), NumValue(2)>>)
                      @@ 2 :> NumValue(2))
    /\ Len(inv.calls) = 2
    /\ Len(inv.result) = 2

-----------------------------------------------------------------------------
(* handler.py H5Data, the durable store. handler holds the h5 file: its    *)
(* groups by name, each with its datasets and its attributes. counters is  *)
(* the clock in seconds. inv holds one H5Data object per invocation: its   *)
(* group name and, beside it, the dict a plain store would hold after the  *)
(* same writes. call_kwargs holds the outcome of the last read, raised the *)
(* exception of the last operation.                                        *)

MaxClock == 1

\* random.choices(alphabet, k=6): the suffixes that can be drawn
Suffixes == {1, 2}

\* a value h5py has no native type for (dtype('O'))
ObjValue == Value("obj", "", 0, <<>>)

\* the values written: numbers, a list of numbers, an object
H5Values == {NumValue(1), NumValue(2), ListValue(<<NumValue(1)>>), ObjValue}
H5Keys == {1}

\* create_dataset raises TypeError for the value
no_native_type(value) == value.kind = "obj"

\* what group[key][()] gives for create_dataset(key, data=value): a number
\* comes back as an equal numpy scalar, a list as a numpy array
as_dataset(value) ==
    IF value.kind = "list" THEN Value("ndarray", "", 0, value.args) ELSE value

\* str(value)
str(value) == Value("str", "", 0, <<value>>)

\* the group name of H5Data.__init__: label, timestamp to the second, suffix
group_name(gname, now, shortuuid) ==
    [gname |-> gname, now |-> now, shortuuid |-> shortuuid]

EmptyGroup == [data |-> <<>>, attrs |-> <<>>]

\* H5Data.__setitem__ on a group: raised is the exception that leaves the
\* method (create_dataset's ValueError for a name that exists)
H5Data_setitem(group, key, value) ==
    IF no_native_type(value)
    THEN [group  |-> [group EXCEPT !.attrs = (key :> str(value)) @@ @],
          raised |-> ""]
    ELSE IF key \in DOMAIN group.data
         THEN [group |-> group, raised |-> "ValueError"]
         ELSE [group  |-> [group EXCEPT !.data = (key :> as_dataset(value)) @@ @],
               raised |-> ""]

\* H5Data.update on the new group: the keys of data are distinct
RECURSIVE H5Data_update(_, _, _)
H5Data_update(group, data, keys) ==
    IF keys = <<>> THEN group
    ELSE H5Data_update(H5Data_setitem(group, Head(keys), data[Head(keys)]).group,
                       data, Tail(keys))

\* H5Data.__getitem__: self.group[key][()] looks among the datasets only
H5Data_getitem(group, key) ==
    IF key \in DOMAIN group.data THEN [ok |-> TRUE, value |-> group.data[key]]
    ELSE [ok |-> FALSE, value |-> ObjValue]

\* H5Data.__init__: create_group raises ValueError for a name that exists
H5Data_init(file, gname, now, shortuuid, data) ==
    LET name == group_name(gname, now, shortuuid)
    IN IF name \in DOMAIN file
       THEN [file |-> file, name |-> name, raised |-> "ValueError"]
       ELSE [file |-> (name :> H5Data_update(EmptyGroup, data,
                                             SetToSortedSeq(DOMAIN data))) @@ file,
             name |-> name, raised |-> ""]

\* the keyword arguments an invocation starts with
H5Kwargs == {<<>>, (1 :> NumValue(1))}

NoStore == [pc |-> "none", name |-> group_name(0, 0, 0), plain |-> <<>>]

InitH5 ==
    /\ graph = EmptyGraph
    /\ raised = ""
    /\ handler = <<>>
    /\ counters = 0
    /\ call_kwargs = <<>>
    /\ inv = [i \in Slots |-> NoStore]

\* datetime.now() moves on by a second
Tick ==
    /\ counters < MaxClock
    /\ counters' = counters + 1
    /\ UNCHANGED <<graph, raised, handler, call_kwargs, inv>>

\* data = H5Data(kwargs, fname, gname) of invocation i, same file, same label
NewH5Data(i) ==
    /\ inv[i].pc = "none"
    /\ \E shortuuid \in Suffixes, data \in H5Kwargs :
         LET made == H5Data_init(handler, 0, counters, shortuuid, data)
         IN /\ handler' = made.file
            /\ raised' = made.raised
            /\ inv' = [inv EXCEPT ![i] =
                         [pc |-> IF made.raised = "" THEN "open" ELSE "failed",
                          name |-> made.name, plain |-> data]]
    /\ UNCHANGED <<graph, counters, call_kwargs>>

\* data[key] = value
SetItem(i) ==
    /\ inv[i].pc = "open"
    /\ \E key \in H5Keys, value \in H5Values :
         LET set == H5Data_setitem(handler[inv[i].name], key, value)
         IN /\ handler' = [handler EXCEPT ![inv[i].name] = set.group]
            /\ raised' = set.raised
            /\ inv' = [inv EXCEPT ![i].plain = (key :> value) @@ @]
    /\ UNCHANGED <<graph, counters, call_kwargs>>

\* data[key]
GetItem(i) ==
    /\ inv[i].pc = "open"
    /\ \E key \in H5Keys :
         LET got == H5Data_getitem(handler[inv[i].name], key)
         IN /\ call_kwargs' = <<got>>
            /\ raised' = IF got.ok THEN "" ELSE "KeyError"
    /\ UNCHANGED <<graph, handler, counters, inv>>

\* data.close()
CloseH5(i) ==
    /\ inv[i].pc = "open"
    /\ inv' = [inv EXCEPT ![i].pc = "closed"]
    /\ raised' = ""
    /\ UNCHANGED <<graph, handler, counters, call_kwargs>>

NextH5 ==
    \/ Tick
    \/ \E i \in Slots : NewH5Data(i) \/ SetItem(i) \/ GetItem(i) \/ CloseH5(i)

SpecH5 == InitH5 /\ [][NextH5]_vars

\* C24: every invocation made with the durable store has created a group of
\* its own, and the group names of two invocations differ.
C24_GroupNamesNeverCollide ==
    \A i \in Slots :
      inv[i].pc # "none" =>
        /\ inv[i].pc # "failed"
        /\ inv[i].name \in DOMAIN handler
        /\ \A j \in Slots \ {i} : inv[j].pc # "none" => inv[j].name # inv[i].name

\* C27: in an open invocation a read of a name that was written gives the
\* value last written under it, the one a plain store holds after the same
\* writes.
C27_ReadsBackWhatWasSet ==
    \A i \in Slots :
      inv[i].pc = "open" =>
        \A key \in DOMAIN inv[i].plain :
          H5Data_getitem(handler[inv[i].name], key) =
            [ok |-> TRUE, value |-> inv[i].plain[key]]

-----------------------------------------------------------------------------
(* The frame of set_node_object: the calls are made on graphs of three    *)
(* nodes whose edges are in place.                                         *)

FrameShapes == ExecShapes \cup {<<<<1, 2>>>>}

InitFrame ==
    \E shape \in FrameShapes :
        /\ graph = add_edges_from(EmptyGraph, shape)
        /\ raised = ""
        /\ handler = <<>>
        /\ counters = <<>>
        /\ call_kwargs = <<>>
        /\ inv = <<>>

NextFrame == SetNodeObject

SpecFrame == InitFrame /\ [][NextFrame]_vars

Touches(e, node) == e[1] = node \/ e[2] = node

\* C26: a call of set_node_object on node n, whether it returns or raises,
\* leaves the nodes and the edges of the graph in place, leaves the callable,
\* the returns, the signature and the modifiers of every other node as they
\* were, and leaves the val of every edge that does not touch n as it was.
C26_SetNodeObjectFrame ==
    [][\A node \in NodeIds, obj \in NodeObjects :
         (/\ node \in NodeSet(graph') /\ graph'.attr[node].base_obj = <<obj[1]>>
          /\ graph' = set_node_object(graph, node, obj[1], obj[2], obj[3])) =>
           /\ graph'.nodes = graph.nodes
           /\ EdgeSet(graph') = EdgeSet(graph)
           /\ \A m \in NodeSet(graph) \ {node} : graph'.attr[m] = graph.attr[m]
           /\ \A e \in EdgeSet(graph) :
                ~Touches(e, node) => graph'.edges[e] = graph.edges[e]]_vars

\* node 3 has an object and a non-empty val on its edge from node 2, and the
\* edge from node 1 to node 2, which does not touch node 3, has a non-empty
\* val as well
C26_Witness ==
    /\ graph.nodes # <<>>
    /\ EdgeSet(graph) = {<<1, 2>>, <<2, 3>>}
    /\ graph.attr[3].func # <<>>
    /\ graph.edges[<<2, 3>>] \notin {<<>>, <<<<>>>>}
    /\ graph.edges[<<1, 2>>] \notin {<<>>, <<<<>>>>}

-----------------------------------------------------------------------------
(* run_node with callables that return what they like: a value that is not *)
(* a sequence, or a sequence of any length up to MaxOut, whatever the node *)
(* declares. The invocations are those of SpecExec, on a fork whose first  *)
(* node declares two outputs, one read by each of the other nodes.         *)

MaxOut == 3

\* func(**kwargs): it raises, or returns a value that cannot be iterated, or
\* returns a sequence of len elements
Raises == [raises |-> TRUE, iter |-> FALSE, len |-> 0]
Scalar == [raises |-> FALSE, iter |-> FALSE, len |-> 0]
SeqOf(len) == [raises |-> FALSE, iter |-> TRUE, len |-> len]
FuncOutputs == {Raises, Scalar} \cup {SeqOf(len) : len \in 0..MaxOut}

\* the value func_output: a sequence is a value as a whole, and its k-th
\* element is Output(func, kwargs, k)
func_output(func, kwargs, out) ==
    IF out.iter THEN Value("seq", func.name, out.len, CallArgs(func, kwargs))
    ELSE Output(func, kwargs, 0)

\* dict(zip(returns, func_output)): zip stops at the shorter of the two, and
\* of two pairs with the same name the dict keeps the later one
zip_dict(returns, func, kwargs, out) ==
    LET zipped == {k \in DOMAIN returns : k <= out.len}
        last(x) == CHOOSE k \in zipped :
                      /\ returns[k] = x
                      /\ \A m \in zipped : returns[m] = x => m <= k
    IN [x \in {returns[k] : k \in zipped} |-> Output(func, kwargs, last(x))]

\* run_node's writes for the value the callable returned; ok is FALSE when
\* zip raises TypeError for a value that cannot be iterated
store_func_output(data, func, kwargs, returns, out) ==
    IF Len(returns) = 1
    THEN [ok |-> TRUE, data |-> (returns[1] :> func_output(func, kwargs, out)) @@ data]
    ELSE IF ~out.iter THEN [ok |-> FALSE, data |-> data]
    ELSE [ok |-> TRUE, data |-> zip_dict(returns, func, kwargs, out) @@ data]

\* handler.py run_node for the node at inv[i].idx, the callable doing out
run_node_output(i, out) ==
    LET node == handler[1].order[inv[i].idx]
        node_attr == graph.attr[node]
        parameters == ParamList(node_attr.sig[1])
        r == read_all(inv[i].cls, inv[i].data, CounterOf(i), parameters, <<>>)
        stored == store_func_output(r.data, node_attr.func[1], r.got,
                                    node_attr.returns[1], out)
    IN IF ~r.ok
       THEN [inv[i] EXCEPT !.pc = "failed", !.data = r.data, !.error = KeyError]
       ELSE IF out.raises \/ ~stored.ok THEN run_node_raise(i, node, r)
       ELSE [inv[i] EXCEPT !.data = stored.data,
                           !.calls = Append(@, <<node, "returned", out>>),
                           !.idx = @ + 1]

\* one turn of the loop of TopologicalHandler.__call__
RunNodeOutput(i) ==
    /\ inv[i].pc = "run"
    /\ inv[i].idx <= Len(handler[1].order)
    /\ \E out \in FuncOutputs :
          inv' = [inv EXCEPT ![i] = run_node_output(i, out)]
    /\ counters' = [counters EXCEPT ![inv[i].ref] = run_node_counter(i)]
    /\ UNCHANGED <<graph, raised, handler, call_kwargs>>

\* a -> c, d at node 1; c -> e at node 2, its returns given as [e] or as
\* [e, e]; c, d -> b at node 3
OutputGraphs ==
    {set_node_objects_from(add_edges_from(EmptyGraph, <<<<1, 2>>, <<1, 3>>>>),
                           <<<<1, f1, <<3, 4>>>>, <<2, f3, r2>>,
                             <<3, subtraction, <<2>>>>>>) :
       r2 \in {<<5>>, <<5, 5>>}}

InitOutput ==
    \E G \in OutputGraphs :
        /\ graph = G
        /\ raised = ""
        /\ handler = <<TopologicalHandler_init(G, model_returns(G))>>
        /\ counters = [i \in {0} \cup Slots |->
                         IF i = 0 THEN param_counter(G, model_returns(G)) ELSE <<>>]
        /\ call_kwargs = [i \in Slots |-> KwargsOf(ParamNames(model_signature(G)))]
        /\ inv = [i \in Slots |-> Idle(IF i = 1 THEN "dict" ELSE "MemData")]

NextOutput == \E i \in Slots : Call(i) \/ RunNodeOutput(i) \/ Finish(i)

SpecOutput == InitOutput /\ [][NextOutput]_vars

\* run_node completes for the current node of invocation i without raising
Completes(i) == inv[i].pc = "run" /\ inv'[i].idx = inv[i].idx + 1

\* the node run_node is about, what it declares, what its callable was
\* called with and what it returned
CurrentNode(i) == Order[inv[i].idx]
Declared(i) == graph.attr[CurrentNode(i)].returns[1]
GivenKwargs(i) == [x \in NodeParams(CurrentNode(i)) |-> inv[i].data[x]]
FuncReturned(i) == inv'[i].calls[Len(inv'[i].calls)][3]

C30_DeclaredOutputsPresent ==
    [][\A i \in Slots :
         Completes(i) => Range(Declared(i)) \subseteq DOMAIN inv'[i].data]_vars

-----------------------------------------------------------------------------
(* The exits of an invocation, checked under SpecExec, and the graph that  *)
(* modify_subgraph returns, checked under SpecCopy.                        *)

\* C28: an invocation that has ended, by returning its result, by a node
\* callable raising, by a node input missing from the store when the
\* arguments are gathered or by a requested name missing at the final
\* extraction, has tried close() on its store.
C28_CloseOnEveryExit ==
    \A i \in Slots :
      inv[i].pc \in {"done", "failed"} => inv[i].closes >= 1

\* modify_subgraph was given an acyclic graph and a non-empty set of its
\* nodes, and returned a graph
CollapsedAcyclic ==
    /\ LastCallIs("modify_subgraph")
    /\ call_kwargs.result # 0
    /\ call_kwargs.subgraph # {}
    /\ ~HasCycle(Given)

\* C29 as stated: when modify_subgraph is given an acyclic graph and a
\* non-empty set of its nodes and returns a graph, the graph it returns is
\* acyclic.
C29_CollapsedGraphAcyclic == CollapsedAcyclic => ~HasCycle(Returned)

\* the nodes of X and the nodes a path from a node of X leads to
RECURSIVE Descendants(_, _)
Descendants(G, X) ==
    LET next == X \cup {e[2] : e \in {f \in EdgeSet(G) : f[1] \in X}}
    IN IF next = X THEN X ELSE Descendants(G, next)

\* no path leaves S and comes back to it
Convex(G, S) ==
    ~\E x \in NodeSet(G) \ S :
        x \in Descendants(G, S) /\ Descendants(G, {x}) \cap S # {}

\* C29 amended: when modify_subgraph is given an acyclic graph and a
\* non-empty set of its nodes that no path leaves and re-enters, and returns
\* a graph, the graph it returns is acyclic.
C29_ConvexCollapseAcyclic ==
    (CollapsedAcyclic /\ Convex(Given, call_kwargs.subgraph)) =>
        ~HasCycle(Returned)

\* two nodes joined by an edge were replaced in an acyclic graph of three
\* nodes, and the replacement has an edge to or from the third node
C29_Witness ==
    /\ CollapsedAcyclic
    /\ Convex(Given, call_kwargs.subgraph)
    /\ Cardinality(call_kwargs.subgraph) = 2
    /\ \E e \in EdgeSet(Given) : e[1] \in call_kwargs.subgraph
                                 /\ e[2] \in call_kwargs.subgraph
    /\ Cardinality(NodeSet(Returned)) = 2
    /\ EdgeSet(Returned) # {}
    /\ ~HasCycle(Returned)

====
